---- MODULE Spec2Model ----
(***************************************************************************)
(* Resilience and caching layer of stackgen-backend: the circuit-breaker   *)
(* registry (utils/circuitBreaker.ts), the Redis cache facade and the      *)
(* MongoDB wrappers built on it (utils/redis.ts, utils/db.ts), and the     *)
(* stack archive pipeline (controllers/generateController.ts).             *)
(***************************************************************************)
EXTENDS Integers, Sequences, FiniteSets, TLC

VARIABLES
    circuitBreakers,  \* registry: breaker name -> breaker (id 0: not registered)
    constructed,      \* breaker name -> number of `new CircuitBreaker` calls
    firstRequest,     \* breaker name -> fn and options of the first creation request
    tasks,            \* task slot -> one asynchronous call of a public operation
    store,            \* contents of the Redis server: key -> entry
    redisClient,      \* module variable redisClient: "null" or "client"
    redisEnabled,     \* module variable redisEnabled
    conn,             \* socket of the Redis client and its failed attempts
    written,          \* history: key -> value of the latest completed
                      \* setCache whose entries no later command changed
    sent,             \* history: stack -> archives sent by the completed
                      \* responses of requests that missed in the cache
    queues,           \* module variable queues of utils/queue: name -> queue
    apiKeys,          \* the ApiKey collection, and the keys revoked so far
    captured,         \* captureException calls made by the latest step
    last              \* what the latest step showed its caller

vars == <<circuitBreakers, constructed, firstRequest, tasks, store,
          redisClient, redisEnabled, conn, written, sent, queues, apiKeys, captured,
          last>>

----------------------------------------------------------------------------
(* Bounds of the model *)

MaxFires == 5      \* calls counted in the rolling windows of the breakers
MaxTasks == 2      \* calls in flight at the same time
MaxRegistryCalls == 3  \* calls made when two breaker names are in use
MaxRefused == 1     \* calls made beyond MaxFires on an open breaker
MaxPending == 1     \* cache or database operations in flight at the same time

Slots == 1..MaxTasks

----------------------------------------------------------------------------
(* Values passed through the cache facade.  A Buffer is a sequence of      *)
(* bytes, a string a sequence of character codes.                          *)

Null == [kind |-> "null", data |-> <<>>]
Undefined == [kind |-> "undefined", data |-> <<>>]
BufferOf(bytes) == [kind |-> "buffer", data |-> bytes]
StringOf(chars) == [kind |-> "string", data |-> chars]
BoolOf(b) == [kind |-> "boolean", data |-> IF b THEN <<1>> ELSE <<0>>]

IsBuffer(v) == v.kind = "buffer"

\* Buffer.prototype.toString('base64'): 3 bytes -> 4 characters, '=' padding
Base64Char(i) ==
    IF i < 26 THEN 65 + i
    ELSE IF i < 52 THEN 97 + (i - 26)
    ELSE IF i < 62 THEN 48 + (i - 52)
    ELSE IF i = 62 THEN 43 ELSE 47

PadChar == 61

RECURSIVE ToBase64(_)
ToBase64(bytes) ==
    IF Len(bytes) = 0 THEN <<>>
    ELSE IF Len(bytes) = 1 THEN
        << Base64Char(bytes[1] \div 4),
           Base64Char((bytes[1] % 4) * 16),
           PadChar, PadChar >>
    ELSE IF Len(bytes) = 2 THEN
        << Base64Char(bytes[1] \div 4),
           Base64Char((bytes[1] % 4) * 16 + bytes[2] \div 16),
           Base64Char((bytes[2] % 16) * 4),
           PadChar >>
    ELSE
        << Base64Char(bytes[1] \div 4),
           Base64Char((bytes[1] % 4) * 16 + bytes[2] \div 16),
           Base64Char((bytes[2] % 16) * 4 + bytes[3] \div 64),
           Base64Char(bytes[3] % 64) >>
        \o ToBase64(SubSeq(bytes, 4, Len(bytes)))

\* Buffer.from(str, 'base64'): characters outside the alphabet are skipped,
\* decoding stops at the first '='
Base64Index(c) ==
    IF c >= 65 /\ c <= 90 THEN c - 65
    ELSE IF c >= 97 /\ c <= 122 THEN c - 97 + 26
    ELSE IF c >= 48 /\ c <= 57 THEN c - 48 + 52
    ELSE IF c = 43 \/ c = 45 THEN 62
    ELSE IF c = 47 \/ c = 95 THEN 63
    ELSE -1

RECURSIVE Base64Digits(_)
Base64Digits(chars) ==
    IF Len(chars) = 0 \/ Head(chars) = PadChar THEN <<>>
    ELSE IF Base64Index(Head(chars)) < 0 THEN Base64Digits(Tail(chars))
    ELSE <<Base64Index(Head(chars))>> \o Base64Digits(Tail(chars))

RECURSIVE DigitsToBytes(_)
DigitsToBytes(d) ==
    IF Len(d) < 2 THEN <<>>
    ELSE IF Len(d) = 2 THEN << d[1] * 4 + d[2] \div 16 >>
    ELSE IF Len(d) = 3 THEN
        << d[1] * 4 + d[2] \div 16, (d[2] % 16) * 16 + d[3] \div 4 >>
    ELSE
        << d[1] * 4 + d[2] \div 16,
           (d[2] % 16) * 16 + d[3] \div 4,
           (d[3] % 4) * 64 + d[4] >>
        \o DigitsToBytes(SubSeq(d, 5, Len(d)))

FromBase64(chars) == DigitsToBytes(Base64Digits(chars))

----------------------------------------------------------------------------
(* Circuit breaker options *)

DEFAULT_OPTIONS ==
    [ timeout |-> 10000,
      errorThresholdPercentage |-> 50,
      resetTimeout |-> 30000,
      rollingCountTimeout |-> 60000,
      rollingCountBuckets |-> 10,
      volumeThreshold |-> 5,
      errorFilter |-> FALSE ]

NoOptions == [k \in {} |-> 0]

\* options passed by setCache, getCache and deleteCache
RedisOptions ==
    [timeout |-> 3000, errorThresholdPercentage |-> 25, resetTimeout |-> 10000]

\* options passed by withDatabaseCircuitBreaker
DatabaseOptions ==
    [timeout |-> 5000, errorThresholdPercentage |-> 30, resetTimeout |-> 10000]

\* { ...DEFAULT_OPTIONS, ...options }
MergeOptionsKeepDefaults(options) == DEFAULT_OPTIONS

MergeOptions(options) ==
    [k \in DOMAIN DEFAULT_OPTIONS \cup DOMAIN options |->
        IF k \in DOMAIN options THEN options[k] ELSE DEFAULT_OPTIONS[k]]

----------------------------------------------------------------------------
(* The breaker object (opossum): state, pending trial, reset timer and the  *)
(* counts of the rolling window.                                            *)

NoFallback == [kind |-> "nofallback", data |-> <<>>]
NoAction == [op |-> "none", key |-> "", value |-> Null, ttl |-> 0, fn |-> 0]
FnAction(f) == [op |-> "fn", key |-> "", value |-> Null, ttl |-> 0, fn |-> f]
NoRequest == [fn |-> NoAction, options |-> NoOptions]

NoBreaker ==
    [ id |-> 0, action |-> NoAction, options |-> DEFAULT_OPTIONS,
      fallback |-> NoFallback, state |-> "none", pendingClose |-> FALSE,
      timer |-> FALSE, fires |-> 0, failures |-> 0 ]

NewBreaker(id, fn, options) ==
    [ NoBreaker EXCEPT !.id = id, !.action = fn, !.options = options,
                       !.state = "closed" ]

Fires(b) == b.fires
Failures(b) == b.failures

\* the window holds at least volumeThreshold calls and the failure
\* percentage exceeds errorThresholdPercentage
OverThreshold(b) ==
    /\ Fires(b) >= b.options.volumeThreshold
    /\ Failures(b) * 100 > b.options.errorThresholdPercentage * Fires(b)

OpenBreaker(b) ==
    [b EXCEPT !.state = "open", !.pendingClose = FALSE, !.timer = TRUE]

CloseBreaker(b) ==
    [b EXCEPT !.state = "closed", !.pendingClose = FALSE, !.timer = FALSE,
              !.fires = 0, !.failures = 0]

HalfOpenBreaker(b) ==
    [b EXCEPT !.state = "halfOpen", !.pendingClose = TRUE, !.timer = FALSE]

\* a call is rejected when the breaker is not closed and no trial is pending
RejectsCalls(b) == b.state # "closed" /\ ~b.pendingClose

RecordFire(b) == [b EXCEPT !.fires = @ + 1]

AdmitCall(b) == [b EXCEPT !.pendingClose = FALSE]

Evaluate(b) ==
    IF b.state = "closed" /\ OverThreshold(b) THEN OpenBreaker(b) ELSE b

\* completion of an admitted call before its deadline
RecordSuccess(b, trial) ==
    IF trial /\ b.state = "halfOpen" THEN CloseBreaker(b) ELSE Evaluate(b)

\* failure or timeout of an admitted call (errorFilter returned false)
RecordFailure(b, trial) ==
    LET c == [b EXCEPT !.failures = @ + 1]
    IN  IF trial /\ c.state = "halfOpen" THEN OpenBreaker(c) ELSE Evaluate(c)

\* rollingCountTimeout passes without a call: the window is empty again
RotateWindow(b) == [b EXCEPT !.fires = 0, !.failures = 0]

----------------------------------------------------------------------------
(* utils/circuitBreaker.ts *)

getCircuitBreaker(cb, name) == cb[name]

\* each returns the registry, the breaker handed back and whether the
\* constructor ran.  Without the lookup of the name:
createCircuitBreakerAlways(cb, made, name, fn, options) ==
    LET b == NewBreaker(made + 1, fn, MergeOptions(options))
    IN  [registry |-> [cb EXCEPT ![name] = b], breaker |-> b, made |-> 1]

\* a later request replaces the options of the registered breaker
createCircuitBreakerLastWins(cb, made, name, fn, options) ==
    LET b == IF cb[name].id # 0
             THEN [cb[name] EXCEPT !.options = MergeOptions(options)]
             ELSE NewBreaker(made + 1, fn, MergeOptions(options))
    IN  [registry |-> [cb EXCEPT ![name] = b], breaker |-> b,
         made |-> IF cb[name].id # 0 THEN 0 ELSE 1]

createCircuitBreaker(cb, made, name, fn, options) ==
    IF cb[name].id # 0
    THEN [registry |-> cb, breaker |-> cb[name], made |-> 0]
    ELSE LET b == NewBreaker(made + 1, fn, MergeOptions(options))
         IN  [registry |-> [cb EXCEPT ![name] = b], breaker |-> b, made |-> 1]

\* lines 144-156: look the breaker up or create it, set the fallback when
\* one is passed, fire.  `rejected`: the breaker refused the call and the
\* wrapped function was not invoked; `action`: the function the breaker runs.
executeWithCircuitBreaker(cb, made, name, fn, fallback, options) ==
    LET c   == IF getCircuitBreaker(cb, name).id # 0
               THEN [registry |-> cb, breaker |-> getCircuitBreaker(cb, name),
                     made |-> 0]
               ELSE createCircuitBreaker(cb, made, name, fn, options)
        b1  == IF fallback # NoFallback
               THEN [c.breaker EXCEPT !.fallback = fallback]
               ELSE c.breaker
        b2  == RecordFire(b1)
        rej == RejectsCalls(b2)
        b3  == IF rej THEN b2 ELSE AdmitCall(b2)
    IN  [ registry |-> [c.registry EXCEPT ![name] = b3], made |-> c.made,
          rejected |-> rej, action |-> b3.action,
          trial |-> (~rej /\ b2.state = "halfOpen"),
          fallback |-> b3.fallback,
          stateAtFire |-> b2.state, pendingAtFire |-> b2.pendingClose ]

----------------------------------------------------------------------------
(* Calls in flight.  A slot holds one call of a public operation while the *)
(* function run by the breaker has not ended; `delivered` tells that the    *)
(* caller already has its result (after a timeout the function runs on).    *)

\* the ApiKey collection: the documents in the order they were saved (the
\* position of a document stands for its _id and for its key), and the ids
\* for which revokeApiKey has answered with success
NoKeys == [docs |-> <<>>, revoked |-> {}]

IdleTask ==
    [ kind |-> "idle", pc |-> "idle", name |-> "",
      key |-> "", value |-> Null, ttl |-> 0,            \* arguments
      action |-> NoAction,                              \* function being run
      acc |-> <<>>,                                     \* string read so far
      avail |-> FALSE,                                  \* cache usable at start
      trial |-> FALSE, delivered |-> FALSE, touched |-> 0 ]

\* Observation of the latest step: the call started or the result delivered.
NoObs ==
    [ event |-> "none", kind |-> "none", name |-> "", key |-> "",
      value |-> Null, fn |-> 0, passedFallback |-> NoFallback,
      avail |-> FALSE, stateAtFire |-> "none", pendingAtFire |-> FALSE,
      invoked |-> FALSE, ran |-> NoAction, trial |-> FALSE, touched |-> 0,
      outcome |-> "none", result |-> Null, error |-> "none", via |-> "none",
      stateBefore |-> "none", instance |-> 0,
      status |-> 0, headers |-> {}, body |-> Null,     \* HTTP response
      detail |-> "",
      frontend |-> "", backend |-> "", options |-> {},  \* request, choices
      saved |-> "none",            \* how the cache write of the request went
      health |-> <<>>,             \* answer of getCircuitBreakersHealth
      escaped |-> FALSE,           \* an error left the request handler
      tree |-> {}, appended |-> 0,  \* files of the template, entries appended
      sends |-> 0,                 \* bodies the handler has sent to the client
      keyCount |-> 0, keyId |-> 0, \* documents counted, document concerned
      apiKey |-> 0,                \* request.apiKey: the document set, 0: unset
      walked |-> FALSE, entries |-> {} ]               \* archive built

Free(t) == tasks[t].pc = "idle"
SomeFree == \E t \in Slots : Free(t)
FirstFree == CHOOSE t \in Slots : Free(t) /\ \A u \in Slots : Free(u) => t <= u

\* what the caller of breaker.fire gets when the call is refused or fails:
\* the fallback's value when the breaker has one, the error otherwise
Settle(obs, fallback, err, how) ==
    IF fallback # NoFallback
    THEN [obs EXCEPT !.event = "deliver", !.outcome = "resolved",
                     !.result = fallback, !.error = err, !.via = how]
    ELSE [obs EXCEPT !.event = "deliver", !.outcome = "rejected",
                     !.result = Null, !.error = err, !.via = how]

Observe(obs, before) == [obs EXCEPT !.stateBefore = before.state]

\* try { return await ...breaker... } catch (error) { captureException(error);
\* return <value> }: the value each wrapper returns from its catch block
CatchValue(kind) ==
    IF kind = "setCache" THEN Undefined
    ELSE IF kind = "deleteCache" THEN BoolOf(FALSE)
    ELSE IF kind = "safeFind" THEN [kind |-> "array", data |-> <<>>]
    ELSE Null

Wrapped(kind) == kind \notin {"exec", "none", "idle"}

Catches(obs) ==
    IF Wrapped(obs.kind) /\ obs.outcome = "rejected" THEN 1 ELSE 0

Caught(obs) ==
    IF Wrapped(obs.kind) /\ obs.outcome = "rejected"
    THEN [obs EXCEPT !.outcome = "resolved", !.result = CatchValue(obs.kind)]
    ELSE obs

ObsOfTask(task) ==
    [NoObs EXCEPT !.kind = task.kind, !.name = task.name, !.key = task.key,
                  !.value = task.value, !.invoked = TRUE,
                  !.avail = task.avail,
                  !.ran = task.action, !.trial = task.trial,
                  !.touched = task.touched]

----------------------------------------------------------------------------
(* Direct use of the breaker API with plain functions *)

BreakerNames == {"svc-a"}
RegistryNames == {"svc-a", "svc-b"}
Fns == {1, 2}
FallbackOf(f) == [kind |-> "fallback", data |-> <<f>>]
ResultOf(f) == [kind |-> "result", data |-> <<f>>]
Fallbacks == {NoFallback, FallbackOf(1)}
OptionChoices == {NoOptions, RedisOptions}

AllNames ==
    RegistryNames \cup {"redis-set", "redis-get", "redis-delete"}
      \cup {"mongodb-findOne-User", "mongodb-find-User", "mongodb-create-User",
            "mongodb-updateOne-User", "mongodb-deleteOne-User"}

TotalFires == LET RECURSIVE Sum(_)
                  Sum(S) == IF S = {} THEN 0
                            ELSE LET n == CHOOSE x \in S : TRUE
                                 IN  Fires(circuitBreakers[n]) + Sum(S \ {n})
              IN  Sum(AllNames)

\* the calls explored: MaxFires in the windows, and MaxRefused more on an
\* open breaker
WithinBudget(name) ==
    \/ TotalFires < MaxFires
    \/ /\ circuitBreakers[name].state = "open"
       /\ TotalFires < MaxFires + MaxRefused

\* enum QueueName
QueueNames == {"generation", "export"}

\* a name of the record queues: the Bull queue stored under it (0: none), the
\* queues ever made for it, the jobs it holds, and whether it was closed
NoQueue == [queue |-> 0, made |-> 0, jobs |-> 0, closed |-> FALSE]

InitCore ==
    /\ queues = [n \in QueueNames |-> NoQueue]
    /\ circuitBreakers = [n \in AllNames |-> NoBreaker]
    /\ constructed = [n \in AllNames |-> 0]
    /\ firstRequest = [n \in AllNames |-> NoRequest]
    /\ tasks = [t \in Slots |-> IdleTask]
    /\ captured = 0
    /\ last = NoObs

InitBase == InitCore /\ apiKeys = NoKeys

Remember(name, fn, options) ==
    IF firstRequest[name] = NoRequest
    THEN [firstRequest EXCEPT ![name] = [fn |-> fn, options |-> options]]
    ELSE firstRequest

\* createCircuitBreaker(name, fn, options) called by itself
CreateBreaker(name, f, options) ==
    LET c == createCircuitBreaker(circuitBreakers, constructed[name], name,
                                  FnAction(f), options)
    IN  /\ constructed[name] < 2
        /\ circuitBreakers' = c.registry
        /\ constructed' = [constructed EXCEPT ![name] = @ + c.made]
        /\ firstRequest' = Remember(name, FnAction(f), options)
        /\ last' = [NoObs EXCEPT !.event = "create", !.name = name, !.fn = f,
                             !.stateBefore = circuitBreakers[name].state,
                             !.instance = c.breaker.id]
        /\ captured' = 0
        /\ UNCHANGED <<tasks, store, written, sent, queues, apiKeys, redisClient, redisEnabled, conn>>

\* executeWithCircuitBreaker(name, fn, [], fallback, options)
ExecStart(name, f, fallback, options) ==
    LET r == executeWithCircuitBreaker(circuitBreakers, constructed[name], name,
                                       FnAction(f), fallback, options)
        o == [NoObs EXCEPT !.kind = "exec", !.name = name, !.fn = f,
                  !.passedFallback = fallback,
                  !.stateAtFire = r.stateAtFire,
                  !.pendingAtFire = r.pendingAtFire]
    IN  /\ TotalFires < MaxFires
        /\ r.rejected \/ SomeFree
        /\ circuitBreakers' = r.registry
        /\ constructed' = [constructed EXCEPT ![name] = @ + r.made]
        /\ firstRequest' = Remember(name, FnAction(f), options)
        /\ IF r.rejected
           THEN /\ last' = Settle(o, r.fallback, "EOPENBREAKER", "reject")
                /\ UNCHANGED tasks
           ELSE /\ last' = [o EXCEPT !.event = "fire", !.invoked = TRUE,
                                     !.ran = r.action, !.trial = r.trial]
                /\ tasks' = [tasks EXCEPT ![FirstFree] =
                      [IdleTask EXCEPT !.kind = "exec", !.pc = "running",
                          !.name = name, !.action = r.action,
                          !.trial = r.trial]]
        /\ captured' = 0
        /\ UNCHANGED <<store, written, sent, queues, apiKeys, redisClient, redisEnabled, conn>>

\* a completion after the deadline recorded and delivered like any other
FinishSuccessAlsoLate(t, value) ==
    LET task == tasks[t]
        b == circuitBreakers[task.name]
    IN  /\ tasks' = [tasks EXCEPT ![t] = IdleTask]
        /\ circuitBreakers' = [circuitBreakers EXCEPT
                                  ![task.name] = RecordSuccess(b, task.trial)]
        /\ last' = [Observe(ObsOfTask(task), b) EXCEPT
                       !.event = "deliver", !.outcome = "resolved",
                       !.result = value, !.via = "success"]
        /\ captured' = 0

\* the function run by the breaker ends: `value` when it resolves.  Before
\* the deadline the breaker records it and the caller gets the value; after
\* a timeout the result is dropped.
FinishSuccess(t, value) ==
    LET task == tasks[t]
        b == circuitBreakers[task.name]
        b1 == RecordSuccess(b, task.trial)
    IN  /\ tasks' = [tasks EXCEPT ![t] = IdleTask]
        /\ IF task.name = ""
           THEN /\ last' = [ObsOfTask(task) EXCEPT
                               !.event = "deliver", !.outcome = "resolved",
                               !.result = value, !.via = "success"]
                /\ UNCHANGED circuitBreakers
           ELSE IF ~task.delivered
           THEN /\ circuitBreakers' = [circuitBreakers EXCEPT ![task.name] = b1]
                /\ last' = [Observe(ObsOfTask(task), b) EXCEPT
                               !.event = "deliver", !.outcome = "resolved",
                               !.result = value, !.via = "success"]
           ELSE /\ last' = [NoObs EXCEPT !.event = "late", !.name = task.name]
                /\ UNCHANGED circuitBreakers
        /\ captured' = 0

\* handleError: the 'failure' listener reports to captureException, the
\* breaker counts the failure, the caller gets the fallback or the error
\* (which the try/catch of a cache or database wrapper turns into a value)
RecordError(t, err, how) ==
    LET task == tasks[t]
        b == circuitBreakers[task.name]
        b1 == RecordFailure(b, task.trial)
        o == Settle(Observe(ObsOfTask(task), b), b1.fallback, err, how)
    IN  /\ circuitBreakers' = [circuitBreakers EXCEPT ![task.name] = b1]
        /\ captured' = 1 + Catches(o)
        /\ last' = Caught(o)

FinishFailure(t) ==
    /\ tasks' = [tasks EXCEPT ![t] = IdleTask]
    /\ IF tasks[t].name = ""
       THEN /\ last' = Caught([ObsOfTask(tasks[t]) EXCEPT
                           !.event = "deliver", !.outcome = "rejected",
                           !.error = "EFAILED", !.via = "failure"])
            /\ captured' = 1
            /\ UNCHANGED circuitBreakers
       ELSE IF ~tasks[t].delivered
       THEN RecordError(t, "EFAILED", "failure")
       ELSE /\ last' = [NoObs EXCEPT !.event = "late", !.name = tasks[t].name]
            /\ captured' = 0
            /\ UNCHANGED circuitBreakers

FnSucceed(t) ==
    /\ tasks[t].pc = "running"
    /\ tasks[t].action.op = "fn"
    /\ FinishSuccess(t, ResultOf(tasks[t].action.fn))
    /\ UNCHANGED <<constructed, firstRequest, store, written, sent, queues, apiKeys, redisClient, redisEnabled,
                   conn>>

FnFail(t) ==
    /\ tasks[t].pc = "running"
    /\ tasks[t].action.op = "fn"
    /\ FinishFailure(t)
    /\ UNCHANGED <<constructed, firstRequest, store, written, sent, queues, apiKeys, redisClient, redisEnabled,
                   conn>>

\* the breaker's deadline passes before the function has ended; the function
\* keeps running
Timeout(t) ==
    /\ tasks[t].pc # "idle"
    /\ tasks[t].name # ""
    /\ ~tasks[t].delivered
    /\ RecordError(t, "ETIMEDOUT", "timeout")
    /\ tasks' = [tasks EXCEPT ![t].delivered = TRUE]
    /\ UNCHANGED <<constructed, firstRequest, store, written, sent, queues, apiKeys, redisClient, redisEnabled,
                   conn>>

\* resetTimeout after the breaker opened
ResetTimeout(name) ==
    /\ circuitBreakers[name].state = "open"
    /\ circuitBreakers[name].timer
    /\ circuitBreakers' =
          [circuitBreakers EXCEPT ![name] = HalfOpenBreaker(@)]
    /\ last' = [NoObs EXCEPT !.event = "halfOpen", !.name = name]
    /\ captured' = 0
    /\ UNCHANGED <<constructed, firstRequest, tasks, store, written, sent, queues, apiKeys, redisClient,
                   redisEnabled, conn>>

\* the rolling window passes without a call
RollWindow(name) ==
    /\ circuitBreakers[name].id # 0
    /\ Fires(circuitBreakers[name]) > 0
    /\ circuitBreakers' = [circuitBreakers EXCEPT ![name] = RotateWindow(@)]
    /\ last' = [NoObs EXCEPT !.event = "roll", !.name = name]
    /\ captured' = 0
    /\ UNCHANGED <<constructed, firstRequest, tasks, store, written, sent, queues, apiKeys, redisClient,
                   redisEnabled, conn>>

NoConn == [socket |-> "none", retries |-> 0]

NoRedis ==
    /\ store = <<>>
    /\ redisClient = "null"
    /\ redisEnabled = TRUE
    /\ conn = NoConn
    /\ written = <<>>
    /\ sent = <<>>

InitBreaker == InitBase /\ NoRedis

NextBreaker ==
    \/ \E n \in BreakerNames, f \in Fns, o \in OptionChoices :
          CreateBreaker(n, f, o)
    \/ \E n \in BreakerNames, f \in Fns, fb \in Fallbacks,
          o \in OptionChoices : ExecStart(n, f, fb, o)
    \/ \E t \in Slots : FnSucceed(t)
    \/ \E t \in Slots : FnFail(t)
    \/ \E t \in Slots : Timeout(t)
    \/ \E n \in BreakerNames : ResetTimeout(n)
    \/ \E n \in BreakerNames : RollWindow(n)

SpecBreaker == InitBreaker /\ [][NextBreaker]_vars

\* breaker.status.stats: the status object of a constructed breaker always
\* carries its statistics
HasStats(b) == b.id # 0

\* lines 114-119: one entry per key of the registry
HealthState(b) == IF HasStats(b) THEN "closed" ELSE "open"

getCircuitBreakersHealth(cb) ==
    [n \in {m \in DOMAIN cb : cb[m].id # 0} |-> [state |-> HealthState(cb[n])]]

\* GET /debug/health as far as the breakers go
GetHealth ==
    /\ last' = [NoObs EXCEPT !.event = "health", !.kind = "health",
                             !.health = getCircuitBreakersHealth(circuitBreakers)]
    /\ captured' = 0
    /\ UNCHANGED <<circuitBreakers, constructed, firstRequest, tasks, store,
                   redisClient, redisEnabled, conn, written, sent, queues, apiKeys>>

NextHealth ==
    \/ NextBreaker
    \/ CreateBreaker("svc-b", 1, NoOptions)
    \/ GetHealth

SpecHealth == InitBreaker /\ [][NextHealth]_vars

\* two breaker names, no timers: creation and reuse across names
NextRegistry ==
    \/ \E n \in RegistryNames, f \in Fns, o \in OptionChoices :
          CreateBreaker(n, f, o)
    \/ \E n \in RegistryNames, f \in Fns, fb \in Fallbacks,
          o \in OptionChoices :
            TotalFires < MaxRegistryCalls /\ ExecStart(n, f, fb, o)
    \/ \E t \in Slots : FnSucceed(t)
    \/ \E t \in Slots : FnFail(t)

SpecRegistry == InitBreaker /\ [][NextRegistry]_vars

----------------------------------------------------------------------------
(* utils/redis.ts: connection state and the cache facade *)

MaxRetries == 5

isRedisAvailableClientOnly == redisClient # "null"

isRedisAvailable == redisClient # "null" /\ redisEnabled

\* getRedisClient() throws when the client is missing or disabled
getRedisClientThrows == redisClient = "null" \/ ~redisEnabled

TypeKey(key) == key \o ":type"

CacheKeys == {"k1", "k2"}
StoreKeys == CacheKeys \cup {TypeKey(k) : k \in CacheKeys}
Payloads == {<<>>, <<77>>}
CacheValues == {BufferOf(p) : p \in Payloads}
TTLs == {0, 60}

Absent == [present |-> FALSE, str |-> <<>>, ex |-> 0]
Entry(str, ex) == [present |-> TRUE, str |-> str, ex |-> ex]

\* 'buffer' as character codes
BufferMarker == <<98, 117, 102, 102, 101, 114>>

SetAction(key, value, ttl) ==
    [op |-> "set", key |-> key, value |-> value, ttl |-> ttl, fn |-> 0]
GetAction(key) ==
    [op |-> "get", key |-> key, value |-> Null, ttl |-> 0, fn |-> 0]
DelAction(key) ==
    [op |-> "del", key |-> key, value |-> Null, ttl |-> 0, fn |-> 0]

ObjectOf(chars) == [kind |-> "object", data |-> chars]

\* JSON.stringify of an object: its members between braces
JsonStringify(value) ==
    IF value.kind = "object" THEN <<123>> \o value.data \o <<125>>
    ELSE value.data

\* a JSON number written with digits only
IsDigits(chars) ==
    Len(chars) > 0 /\ \A i \in 1..Len(chars) : chars[i] \in 48..57

NumberOf(chars) == [kind |-> "number", data |-> chars]

\* 'null' as character codes
NullText == <<110, 117, 108, 108>>

\* try { JSON.parse(value) } catch { value }: text between braces is an
\* object, digits are a number, 'null' is null, and the other texts stored
\* here are no JSON and are returned as they are
JsonParse(chars) ==
    IF Len(chars) >= 2 /\ chars[1] = 123 /\ chars[Len(chars)] = 125
    THEN ObjectOf(SubSeq(chars, 2, Len(chars) - 1))
    ELSE IF IsDigits(chars) THEN NumberOf(chars)
    ELSE IF chars = NullText THEN Null
    ELSE StringOf(chars)

\* stringValue of setCache
StringValue(value) ==
    IF IsBuffer(value) THEN ToBase64(value.data)
    ELSE IF value.kind = "string" THEN value.data
    ELSE JsonStringify(value)

\* the first store command a wrapped function issues
FirstPc(action) ==
    IF action.op = "set" THEN (IF IsBuffer(action.value) THEN "type1" ELSE "val")
    ELSE IF action.op = "get" THEN "get"
    ELSE "del"

StorePcs == {"type1", "val", "type2", "get", "gettype", "del"}

\* the value getCache's function returns once it has read the type marker
Decode(value, valueType) ==
    IF valueType.present /\ valueType.str = BufferMarker
    THEN BufferOf(FromBase64(value))
    ELSE JsonParse(value)

\* fallbacks passed by setCache, getCache and deleteCache
CacheFallback(kind) ==
    IF kind = "setCache" THEN Undefined
    ELSE IF kind = "getCache" THEN Null
    ELSE BoolOf(FALSE)

CacheBreaker(kind) ==
    IF kind = "setCache" THEN "redis-set"
    ELSE IF kind = "getCache" THEN "redis-get"
    ELSE "redis-delete"

CacheAction(kind, key, value, ttl) ==
    IF kind = "setCache" THEN SetAction(key, value, ttl)
    ELSE IF kind = "getCache" THEN GetAction(key)
    ELSE DelAction(key)

\* setCache(key, value, ttl), getCache(key), deleteCache(key) up to the first
\* await: the availability check, the breaker and the first store command
CacheStart(kind, key, value, ttl) ==
    LET name == CacheBreaker(kind)
        r == executeWithCircuitBreaker(circuitBreakers, constructed[name], name,
                 CacheAction(kind, key, value, ttl), CacheFallback(kind),
                 RedisOptions)
        o == [NoObs EXCEPT !.kind = kind, !.name = name, !.key = key,
                  !.value = value,
                  !.avail = (redisClient # "null" /\ redisEnabled)]
    IN  /\ captured' = 0
        /\ UNCHANGED <<store, written, sent, queues, apiKeys, redisClient, redisEnabled, conn>>
        /\ IF ~isRedisAvailable
           THEN /\ last' = [o EXCEPT !.event = "deliver", !.outcome = "resolved",
                                     !.result = CacheFallback(kind),
                                     !.via = "unavailable"]
                /\ UNCHANGED <<circuitBreakers, constructed, firstRequest, tasks>>
           ELSE /\ WithinBudget(name)
                /\ Cardinality({t \in Slots : ~Free(t)}) < MaxPending
                /\ circuitBreakers' = r.registry
                /\ constructed' = [constructed EXCEPT ![name] = @ + r.made]
                /\ firstRequest' =
                      Remember(name, CacheAction(kind, key, value, ttl),
                               RedisOptions)
                /\ IF r.rejected
                   THEN /\ last' = Caught(Settle(
                               [o EXCEPT !.stateAtFire = r.stateAtFire,
                                         !.pendingAtFire = r.pendingAtFire],
                               r.fallback, "EOPENBREAKER", "reject"))
                        /\ UNCHANGED tasks
                   ELSE /\ last' = [o EXCEPT !.event = "fire", !.invoked = TRUE,
                                       !.stateAtFire = r.stateAtFire,
                                       !.pendingAtFire = r.pendingAtFire,
                                       !.ran = r.action, !.trial = r.trial]
                        /\ tasks' = [tasks EXCEPT ![FirstFree] =
                              [IdleTask EXCEPT !.kind = kind, !.name = name,
                                  !.key = key, !.value = value, !.ttl = ttl,
                                  !.avail = o.avail,
                                  !.action = r.action, !.trial = r.trial,
                                  !.pc = IF getRedisClientThrows THEN "thrown"
                                         ELSE FirstPc(r.action),
                                  !.touched = IF getRedisClientThrows THEN 0
                                              ELSE 1]]

\* setCache, getCache and deleteCache of the facade that calls the store
\* directly inside try/catch, up to the first await
PlainCacheStart(kind, key, value, ttl) ==
    LET o == [NoObs EXCEPT !.kind = kind, !.key = key, !.value = value,
                  !.avail = (redisClient # "null" /\ redisEnabled)]
        a == CacheAction(kind, key, value, ttl)
    IN  /\ captured' = 0
        /\ UNCHANGED <<store, written, sent, queues, apiKeys, redisClient, redisEnabled, conn, circuitBreakers,
                       constructed, firstRequest>>
        /\ IF ~isRedisAvailable
           THEN /\ last' = [o EXCEPT !.event = "deliver", !.outcome = "resolved",
                                     !.result = CacheFallback(kind),
                                     !.via = "unavailable"]
                /\ UNCHANGED tasks
           ELSE /\ Cardinality({t \in Slots : ~Free(t)}) < MaxPending
                /\ last' = [o EXCEPT !.event = "fire", !.invoked = TRUE,
                                     !.ran = a]
                /\ tasks' = [tasks EXCEPT ![FirstFree] =
                      [IdleTask EXCEPT !.kind = kind, !.key = key,
                          !.value = value, !.ttl = ttl, !.action = a,
                          !.avail = o.avail,
                          !.pc = IF getRedisClientThrows THEN "thrown"
                                 ELSE FirstPc(a),
                          !.touched = IF getRedisClientThrows THEN 0 ELSE 1]]

Put(key, str, ex) == [store EXCEPT ![key] = Entry(str, ex)]

\* the Redis server answers the pending command of the function run for t
StoreStep(t) ==
    LET task == tasks[t]
        a == task.action
        more == [task EXCEPT !.touched = @ + 1]
    IN  /\ task.pc \in StorePcs
        /\ conn.socket = "ready"
        /\ UNCHANGED <<constructed, firstRequest, redisClient, redisEnabled, conn,
                       sent, queues, apiKeys>>
        /\ CASE task.pc = "type1" ->
                  /\ store' = Put(TypeKey(a.key), BufferMarker, 0)
                  /\ tasks' = [tasks EXCEPT ![t] = [more EXCEPT !.pc = "val"]]
                  /\ last' = NoObs /\ captured' = 0
                  /\ UNCHANGED circuitBreakers
             [] task.pc = "val" /\ a.ttl # 0 /\ IsBuffer(a.value) ->
                  /\ store' = Put(a.key, StringValue(a.value), a.ttl)
                  /\ tasks' = [tasks EXCEPT ![t] = [more EXCEPT !.pc = "type2"]]
                  /\ last' = NoObs /\ captured' = 0
                  /\ UNCHANGED circuitBreakers
             [] task.pc = "val" /\ ~(a.ttl # 0 /\ IsBuffer(a.value)) ->
                  /\ store' = Put(a.key, StringValue(a.value), a.ttl)
                  /\ FinishSuccess(t, Undefined)
             [] task.pc = "type2" ->
                  /\ store' = Put(TypeKey(a.key), BufferMarker, a.ttl)
                  /\ FinishSuccess(t, Undefined)
             [] task.pc = "get" /\ (~store[a.key].present \/ store[a.key].str = <<>>) ->
                  /\ FinishSuccess(t, Null)
                  /\ UNCHANGED store
             [] task.pc = "get" /\ store[a.key].present /\ store[a.key].str # <<>> ->
                  /\ tasks' = [tasks EXCEPT ![t] =
                        [more EXCEPT !.pc = "gettype", !.acc = store[a.key].str]]
                  /\ last' = NoObs /\ captured' = 0
                  /\ UNCHANGED <<store, circuitBreakers>>
             [] task.pc = "gettype" ->
                  /\ FinishSuccess(t, Decode(task.acc, store[TypeKey(a.key)]))
                  /\ UNCHANGED store
             [] task.pc = "del" ->
                  /\ store' = [store EXCEPT ![a.key] = Absent]
                  /\ FinishSuccess(t, BoolOf(TRUE))
        /\ written' = [k \in CacheKeys |->
              IF last'.event = "deliver" /\ last'.kind = "setCache"
                   /\ last'.via = "success" /\ last'.key = k
              THEN last'.value
              ELSE IF store'[k] # store[k] \/ store'[TypeKey(k)] # store[TypeKey(k)]
              THEN Null
              ELSE written[k]]

\* the pending command is rejected because the client was closed, or
\* getRedisClient() threw: the wrapped function rejects
StoreReject(t) ==
    /\ \/ tasks[t].pc \in StorePcs /\ conn.socket = "closed"
       \/ tasks[t].pc = "thrown"
    /\ FinishFailure(t)
    /\ UNCHANGED <<constructed, firstRequest, store, written, sent, queues, apiKeys, redisClient, redisEnabled,
                   conn>>

\* the socket connects: the 'connect' handler enables the cache
Connected ==
    /\ conn.socket \in {"connecting", "reconnecting"}
    /\ conn' = [socket |-> "ready", retries |-> 0]
    /\ redisEnabled' = TRUE
    /\ last' = [NoObs EXCEPT !.event = "connect"]
    /\ captured' = 0
    /\ UNCHANGED <<circuitBreakers, constructed, firstRequest, tasks, store, written, sent, queues, apiKeys,
                   redisClient>>

\* a connection attempt fails: reconnectStrategy(retries); when it gives up
\* on the first connection, connect() rejects and the catch block of
\* initRedis disables the cache as well
ConnectFail ==
    /\ conn.socket \in {"connecting", "reconnecting"}
    /\ IF conn.retries > MaxRetries
       THEN /\ redisEnabled' = FALSE
            /\ conn' = [conn EXCEPT !.socket = "closed"]
       ELSE /\ conn' = [socket |-> "reconnecting", retries |-> conn.retries + 1]
            /\ UNCHANGED redisEnabled
    /\ last' = [NoObs EXCEPT !.event = "connectFail"]
    /\ captured' = 0
    /\ UNCHANGED <<circuitBreakers, constructed, firstRequest, tasks, store, written, sent, queues, apiKeys,
                   redisClient>>

CacheBreakers == {"redis-set", "redis-get", "redis-delete"}

\* what a client event leaves of the rest of the state
ClientEvent(name, enabled) ==
    /\ last' = [NoObs EXCEPT !.event = name,
                             !.avail = (redisClient' # "null" /\ enabled)]
    /\ redisEnabled' = enabled
    /\ UNCHANGED <<circuitBreakers, constructed, firstRequest, tasks, store,
                   written, sent, queues, apiKeys>>

\* initRedis() up to `await redisClient.connect()`: the client is created,
\* its handlers are registered, the first connection attempt is pending
InitRedis ==
    /\ redisClient = "null"
    /\ redisClient' = "client"
    /\ conn' = [socket |-> "connecting", retries |-> 0]
    /\ captured' = 0
    /\ ClientEvent("initRedis", redisEnabled)

\* the 'connect' handler, run for an event that comes after the strategy
\* gave up: it has no test of its own
LateConnectHandler ==
    /\ conn.socket = "closed"
    /\ conn' = [socket |-> "ready", retries |-> 0]
    /\ captured' = 0
    /\ UNCHANGED redisClient
    /\ ClientEvent("lateConnect", TRUE)

\* the 'error' handler: reports while the cache is enabled; an error on the
\* established connection starts the reconnects
ErrorHandler ==
    /\ redisClient # "null"
    /\ conn' = IF conn.socket = "ready"
               THEN [socket |-> "reconnecting", retries |-> 0] ELSE conn
    /\ captured' = IF redisEnabled THEN 1 ELSE 0
    /\ UNCHANGED redisClient
    /\ ClientEvent("error", redisEnabled)

\* the 'reconnecting' handler only logs
ReconnectingHandler ==
    /\ redisClient # "null"
    /\ captured' = 0
    /\ UNCHANGED <<redisClient, conn>>
    /\ ClientEvent("reconnecting", redisEnabled)

\* the process before initRedis has run
InitConn ==
    /\ InitBase
    /\ store = [k \in StoreKeys |-> Absent]
    /\ written = [k \in CacheKeys |-> Null]
    /\ sent = <<>>
    /\ redisClient = "null"
    /\ redisEnabled = TRUE
    /\ conn = NoConn

NextConn ==
    \/ InitRedis
    \/ Connected
    \/ ConnectFail
    \/ LateConnectHandler
    \/ ErrorHandler
    \/ ReconnectingHandler
    \/ CacheStart("getCache", "k1", Null, 0)
    \/ \E t \in Slots : StoreStep(t)
    \/ \E t \in Slots : StoreReject(t)

SpecConn == InitConn /\ [][NextConn]_vars

----------------------------------------------------------------------------
(* utils/queue: Bull queues kept by name *)

MaxJobs == 2       \* jobs added to one queue
MaxQueuesMade == 2 \* Bull queues constructed for one name

\* initQueue(name): available is isRedisAvailable() at the call, built is
\* whether `new Bull(...)` returned; the answer is the queue or null
initQueueIgnoringRedis(qs, name, available, built) ==
    IF ~built
    THEN [queues |-> qs, result |-> "null", captured |-> 1]
    ELSE [queues |-> [qs EXCEPT ![name] =
                         [queue |-> qs[name].made + 1,
                          made |-> qs[name].made + 1,
                          jobs |-> 0, closed |-> FALSE]],
          result |-> "queue", captured |-> 0]

initQueue(qs, name, available, built) ==
    IF ~available
    THEN [queues |-> qs, result |-> "null", captured |-> 0]
    ELSE IF ~built
    THEN [queues |-> qs, result |-> "null", captured |-> 1]
    ELSE [queues |-> [qs EXCEPT ![name] =
                         [queue |-> qs[name].made + 1,
                          made |-> qs[name].made + 1,
                          jobs |-> 0, closed |-> FALSE]],
          result |-> "queue", captured |-> 0]

\* getQueue(name): queues[name] || null
getQueue(qs, name) == IF qs[name].queue = 0 THEN "null" ELSE "queue"

\* addJob(queueName, jobName, data): added is whether queue.add resolved
addJob(qs, name, added) ==
    IF getQueue(qs, name) = "null"
    THEN [queues |-> qs, result |-> "null", captured |-> 0]
    ELSE IF ~added \/ qs[name].closed
    THEN [queues |-> qs, result |-> "null", captured |-> 1]
    ELSE [queues |-> [qs EXCEPT ![name].jobs = @ + 1],
          result |-> "job", captured |-> 0]

QueueFrame ==
    UNCHANGED <<circuitBreakers, constructed, firstRequest, tasks, store,
                redisClient, redisEnabled, conn, written, sent, apiKeys>>

QueueObs(event, name, r) ==
    [NoObs EXCEPT !.event = event, !.kind = "queue", !.name = name,
                  !.avail = isRedisAvailable, !.outcome = "resolved",
                  !.detail = r.result]

InitQueue(name, built) ==
    /\ queues[name].made < MaxQueuesMade
    /\ \E r \in {initQueue(queues, name, isRedisAvailable, built)} :
          /\ queues' = r.queues
          /\ captured' = r.captured
          /\ last' = QueueObs("initQueue", name, r)
    /\ QueueFrame

\* initAllQueues(): initQueue for every name of the enum
InitAllQueues(built) ==
    /\ \A n \in QueueNames : queues[n].made < MaxQueuesMade
    /\ \E r \in {initQueue(initQueue(queues, "generation", isRedisAvailable,
                                     built).queues,
                           "export", isRedisAvailable, built)} :
          /\ queues' = r.queues
          /\ captured' = IF isRedisAvailable /\ ~built THEN 2 ELSE 0
          /\ last' = QueueObs("initAllQueues", "", r)
    /\ QueueFrame

GetQueue(name) ==
    /\ last' = [QueueObs("getQueue", name, [result |-> getQueue(queues, name)])
                  EXCEPT !.touched = queues[name].made]
    /\ captured' = 0
    /\ UNCHANGED queues
    /\ QueueFrame

AddJob(name, added) ==
    /\ queues[name].jobs < MaxJobs
    /\ \E r \in {addJob(queues, name, added)} :
          /\ queues' = r.queues
          /\ captured' = r.captured
          /\ last' = [QueueObs("addJob", name, r)
                        EXCEPT !.touched = queues[name].made]
    /\ QueueFrame

\* closeAllQueues(): every stored queue is closed and stays stored
CloseAllQueues ==
    /\ queues' = [n \in QueueNames |->
                     IF queues[n].queue # 0
                     THEN [queues[n] EXCEPT !.closed = TRUE] ELSE queues[n]]
    /\ captured' = 0
    /\ last' = QueueObs("closeAllQueues", "", [result |-> "undefined"])
    /\ QueueFrame

NextQueue ==
    \/ InitRedis
    \/ Connected
    \/ ConnectFail
    \/ \E n \in QueueNames, built \in BOOLEAN : InitQueue(n, built)
    \/ \E built \in BOOLEAN : InitAllQueues(built)
    \/ \E n \in QueueNames : GetQueue(n)
    \/ \E n \in QueueNames, added \in BOOLEAN : AddJob(n, added)
    \/ CloseAllQueues

SpecQueue == InitConn /\ [][NextQueue]_vars

\* the process with the cache never initialised, connected, or at the last
\* reconnect attempt
InitCache ==
    /\ InitBase
    /\ store = [k \in StoreKeys |-> Absent]
    /\ written = [k \in CacheKeys |-> Null]
    /\ sent = <<>>
    /\ \/ redisClient = "null" /\ conn = NoConn
       \/ redisClient = "client" /\ conn = [socket |-> "ready", retries |-> 0]
       \/ redisClient = "client"
            /\ conn = [socket |-> "reconnecting", retries |-> MaxRetries + 1]
    /\ redisEnabled = TRUE

NextCache ==
    \/ \E kind \in {"setCache"}, k \in CacheKeys, v \in CacheValues, ttl \in TTLs :
          CacheStart(kind, k, v, ttl)
    \/ \E kind \in {"getCache", "deleteCache"}, k \in CacheKeys :
          CacheStart(kind, k, Null, 0)
    \/ \E t \in Slots : StoreStep(t)
    \/ \E t \in Slots : StoreReject(t)
    \/ \E t \in Slots : Timeout(t)
    \/ \E n \in CacheBreakers : ResetTimeout(n)
    \/ Connected
    \/ ConnectFail

SpecCache == InitCache /\ [][NextCache]_vars

\* both facades side by side, on one key
NextFacade ==
    \/ \E ttl \in TTLs : CacheStart("setCache", "k1", BufferOf(<<77>>), ttl)
    \/ \E kind \in {"getCache", "deleteCache"} : CacheStart(kind, "k1", Null, 0)
    \/ \E ttl \in TTLs : PlainCacheStart("setCache", "k1", BufferOf(<<77>>), ttl)
    \/ \E kind \in {"getCache", "deleteCache"} :
          PlainCacheStart(kind, "k1", Null, 0)
    \/ \E t \in Slots : StoreStep(t)
    \/ \E t \in Slots : StoreReject(t)
    \/ \E t \in Slots : Timeout(t)
    \/ \E n \in CacheBreakers : ResetTimeout(n)
    \/ Connected
    \/ ConnectFail

SpecFacade == InitCache /\ [][NextFacade]_vars

\* binary and text values written, read and deleted under one key, the store
\* connected and answering
MarkerValues == {BufferOf(<<77>>), StringOf(<<116, 101>>)}

InitMarker ==
    /\ InitBase
    /\ store = [k \in StoreKeys |-> Absent]
    /\ written = [k \in CacheKeys |-> Null]
    /\ sent = <<>>
    /\ redisClient = "client"
    /\ conn = [socket |-> "ready", retries |-> 0]
    /\ redisEnabled = TRUE

NextMarker ==
    \/ \E v \in MarkerValues, ttl \in TTLs : CacheStart("setCache", "k1", v, ttl)
    \/ \E kind \in {"getCache", "deleteCache"} : CacheStart(kind, "k1", Null, 0)
    \/ \E v \in MarkerValues, ttl \in TTLs :
          PlainCacheStart("setCache", "k1", v, ttl)
    \/ \E kind \in {"getCache", "deleteCache"} :
          PlainCacheStart(kind, "k1", Null, 0)
    \/ \E t \in Slots : StoreStep(t)

SpecMarker == InitMarker /\ [][NextMarker]_vars

\* strings and objects written and read back under one key: the empty
\* string, 'te', '1', 'null' and an object
TextValues ==
    { StringOf(<<>>), StringOf(<<116, 101>>), StringOf(<<49>>),
      StringOf(NullText), ObjectOf(<<116>>) }

NextText ==
    \/ \E v \in TextValues, ttl \in TTLs : CacheStart("setCache", "k1", v, ttl)
    \/ CacheStart("getCache", "k1", Null, 0)
    \/ \E v \in TextValues, ttl \in TTLs :
          PlainCacheStart("setCache", "k1", v, ttl)
    \/ PlainCacheStart("getCache", "k1", Null, 0)
    \/ \E t \in Slots : StoreStep(t)

SpecText == InitMarker /\ [][NextText]_vars

----------------------------------------------------------------------------
(* utils/db.ts: data-access wrappers on the User model *)

DbKinds == {"safeFindOne", "safeFind", "safeCreate", "safeUpdateOne",
            "safeDeleteOne"}

Queries == {1, 2}

EmptyArray == [kind |-> "array", data |-> <<>>]

\* `${operation}-${model.modelName}` as passed to withDatabaseCircuitBreaker
DbOperationName(kind) ==
    IF kind = "safeFindOne" THEN "findOne-User"
    ELSE IF kind = "safeFind" THEN "find-User"
    ELSE IF kind = "safeCreate" THEN "create-User"
    ELSE IF kind = "safeUpdateOne" THEN "updateOne-User"
    ELSE "deleteOne-User"

DbBreakers == {"mongodb-" \o DbOperationName(k) : k \in DbKinds}

\* the fallback each wrapper passes
\* wrappers that pass no fallback to the breaker
DbFallbackNone(kind) == NoFallback

DbFallbackAlwaysNull(kind) == Null

DbFallback(kind) == IF kind = "safeFind" THEN EmptyArray ELSE Null

\* the store operation closed over the query q
DbAction(kind, q) ==
    [op |-> "db", key |-> DbOperationName(kind), value |-> Null, ttl |-> 0,
     fn |-> q]

\* what the store operation resolves to
DbResult(action) ==
    IF action.key = "find-User"
    THEN [kind |-> "array", data |-> <<action.fn>>]
    ELSE [kind |-> "doc", data |-> <<action.fn>>]

\* withDatabaseCircuitBreaker(operationName, dbOperation, fallback)
withDatabaseCircuitBreaker(cb, made, operationName, dbOperation, fallback) ==
    executeWithCircuitBreaker(cb, made, "mongodb-" \o operationName,
                              dbOperation, fallback, DatabaseOptions)

\* safeFindOne, safeFind, safeCreate, safeUpdateOne, safeDeleteOne up to the
\* first await
DbStart(kind, q) ==
    LET name == "mongodb-" \o DbOperationName(kind)
        r == withDatabaseCircuitBreaker(circuitBreakers, constructed[name],
                 DbOperationName(kind), DbAction(kind, q), DbFallback(kind))
        o == [NoObs EXCEPT !.kind = kind, !.name = name, !.fn = q,
                  !.passedFallback = DbFallback(kind),
                  !.stateAtFire = r.stateAtFire,
                  !.pendingAtFire = r.pendingAtFire]
    IN  /\ WithinBudget(name)
        /\ Cardinality({t \in Slots : ~Free(t)}) < MaxPending
        /\ circuitBreakers' = r.registry
        /\ constructed' = [constructed EXCEPT ![name] = @ + r.made]
        /\ firstRequest' = Remember(name, DbAction(kind, q), DatabaseOptions)
        /\ IF r.rejected
           THEN /\ last' = Caught(Settle(o, r.fallback, "EOPENBREAKER", "reject"))
                /\ UNCHANGED tasks
           ELSE /\ last' = [o EXCEPT !.event = "fire", !.invoked = TRUE,
                                     !.ran = r.action, !.trial = r.trial]
                /\ tasks' = [tasks EXCEPT ![FirstFree] =
                      [IdleTask EXCEPT !.kind = kind, !.pc = "running",
                          !.name = name, !.action = r.action,
                          !.trial = r.trial]]
        /\ captured' = 0
        /\ UNCHANGED <<store, written, sent, queues, apiKeys, redisClient, redisEnabled, conn>>

\* the MongoDB driver answers
DbSucceed(t) ==
    /\ tasks[t].pc = "running"
    /\ tasks[t].action.op = "db"
    /\ FinishSuccess(t, DbResult(tasks[t].action))
    /\ UNCHANGED <<constructed, firstRequest, store, written, sent, queues, apiKeys, redisClient,
                   redisEnabled, conn>>

\* the MongoDB driver rejects
DbFail(t) ==
    /\ tasks[t].pc = "running"
    /\ tasks[t].action.op = "db"
    /\ FinishFailure(t)
    /\ UNCHANGED <<constructed, firstRequest, store, written, sent, queues, apiKeys, redisClient,
                   redisEnabled, conn>>

NextDb ==
    \/ \E kind \in DbKinds, q \in Queries : DbStart(kind, q)
    \/ \E t \in Slots : DbSucceed(t)
    \/ \E t \in Slots : DbFail(t)
    \/ \E t \in Slots : Timeout(t)
    \/ \E n \in DbBreakers : ResetTimeout(n)

SpecDb == InitBreaker /\ [][NextDb]_vars

----------------------------------------------------------------------------
(* types/stack.ts and utils/validation.ts *)

Frontends == {"react", "nextjs", "vue", "angular", "svelte"}
Backends == {"express", "fastify", "nest", "django", "laravel"}

implemented == {"react-express"}

uiVisible == {"react-express", "react-fastify", "vue-express",
              "nextjs-express", "angular-express"}

compatibility(frontend) ==
    CASE frontend = "react"   -> {"express", "fastify", "nest"}
      [] frontend = "nextjs"  -> {"express", "nest"}
      [] frontend = "vue"     -> {"express", "fastify", "nest"}
      [] frontend = "angular" -> {"express", "nest"}
      [] frontend = "svelte"  -> {"express", "fastify"}
      [] OTHER                -> {}

StackNameOf(frontend, backend) == frontend \o "-" \o backend

NoError == [error |-> "null", options |-> {}]

\* no check at all
validateNothing(frontend, backend) == NoError

\* the same checks with the backend looked at first
validateBackendFirst(frontend, backend) ==
    IF backend \notin Backends
    THEN [error |-> "Unsupported backend: " \o backend, options |-> Backends]
    ELSE IF frontend \notin Frontends
    THEN [error |-> "Unsupported frontend: " \o frontend,
          options |-> Frontends]
    ELSE IF backend \notin compatibility(frontend)
    THEN [error |-> "Incompatible stack combination: " \o frontend
                       \o " with " \o backend,
          options |-> compatibility(frontend)]
    ELSE NoError

validateStackCombination(frontend, backend) ==
    IF frontend \notin Frontends
    THEN [error |-> "Unsupported frontend: " \o frontend,
          options |-> Frontends]
    ELSE IF backend \notin Backends
    THEN [error |-> "Unsupported backend: " \o backend, options |-> Backends]
    ELSE IF backend \notin compatibility(frontend)
    THEN [error |-> "Incompatible stack combination: " \o frontend
                       \o " with " \o backend,
          options |-> compatibility(frontend)]
    ELSE NoError

----------------------------------------------------------------------------
(* controllers/generateController.ts, in its two versions (A: the one with  *)
(* its own stack table, B: the one built on utils/validation and            *)
(* utils/cache)                                                              *)

CorsHeaders == {"Access-Control-Allow-Origin", "Access-Control-Allow-Methods",
                "Access-Control-Allow-Headers"}

ZipHeaders(stackName) ==
    {"Content-Type: application/zip",
     "Content-Disposition: attachment; filename=" \o stackName \o ".zip"}

Response(status, error, detail, headers, body) ==
    [status |-> status, error |-> error, detail |-> detail,
     headers |-> headers, body |-> body]

\* sendErrorResponse of version A sets the CORS headers, that of version B
\* (utils/validation.ts) only the status
sendErrorResponse(ver, status, error, detail) ==
    Response(status, error, detail,
             IF ver = "generateA" THEN CorsHeaders ELSE {}, Null)

handleMissingStackA(frontend, backend, stackName) ==
    IF stackName \in uiVisible /\ stackName \notin implemented
    THEN sendErrorResponse("generateA", 404, "Stack in development",
                           "coming_soon")
    ELSE IF stackName \notin uiVisible
    THEN IF backend \in compatibility(frontend)
         THEN sendErrorResponse("generateA", 404, "Stack not available yet", "")
         ELSE sendErrorResponse("generateA", 404, "Stack not found", "")
    ELSE sendErrorResponse("generateA", 404, "Stack not found", "")

handleMissingStackAlwaysNotFound(frontend, backend, stackName) ==
    sendErrorResponse("generateB", 404, "Stack not found", "unavailable")

handleMissingStackB(frontend, backend, stackName) ==
    IF stackName \in uiVisible /\ stackName \notin implemented
    THEN sendErrorResponse("generateB", 501, "Stack not implemented", "planned")
    ELSE sendErrorResponse("generateB", 404, "Stack not found", "unavailable")

handleMissingStack(ver, frontend, backend, stackName) ==
    IF ver = "generateA" THEN handleMissingStackA(frontend, backend, stackName)
    ELSE handleMissingStackB(frontend, backend, stackName)

\* the only directory below boilerplates/ in the repository
Boilerplates == {"react-express"}

NoTemplate == {<<>>}

\* template: the tree of boilerplates/<stackName>, NoTemplate when that
\* directory does not exist
findStackPath(ver, stackName, template) ==
    IF ver = "generateA"
    THEN stackName \in implemented /\ template # NoTemplate
    ELSE template # NoTemplate

\* file and directory names as character codes
FrontendDir == <<102, 114, 111, 110, 116, 101, 110, 100>>
BackendDir == <<98, 97, 99, 107, 101, 110, 100>>
NodeModules == <<110, 111, 100, 101, 95, 109, 111, 100, 117, 108, 101, 115>>
DotEnv == <<46, 101, 110, 118>>
DotGit == <<46, 103, 105, 116>>
SrcDir == <<115, 114, 99>>
AppJs == <<97, 112, 112, 46, 106, 115>>
MJs == <<109, 46, 106, 115>>
CFile == <<99>>
Link == <<108>>

\* the files a template may hold, as paths below boilerplates/<stackName>
AllFiles ==
    << <<FrontendDir, AppJs>>,
       <<FrontendDir, DotEnv>>,
       <<FrontendDir, NodeModules, MJs>>,
       <<BackendDir, SrcDir, AppJs>>,
       <<BackendDir, SrcDir, DotGit, CFile>>,
       <<BackendDir, Link>>,
       <<CFile>>,
       <<FrontendDir, SrcDir, SrcDir, MJs>> >>

\* a symbolic link to nothing: fs.statSync throws on it
Dangling == {<<BackendDir, Link>>}

File(i) == AllFiles[i]

\* template trees: sets of files (a directory exists when a file lies below)
Trees ==
    { {}, {File(1)}, {File(1), File(2)}, {File(1), File(3)}, {File(4)},
      {File(4), File(5)}, {File(2), File(3), File(5)},
      {File(1), File(2), File(3), File(4), File(5)}, {File(1), File(6)},
      {File(1), File(7), File(8)}, {File(3), File(4), File(5), File(8)} }

IsBelow(path, dir) ==
    Len(path) > Len(dir) /\ SubSeq(path, 1, Len(dir)) = dir

\* fs.readdirSync(dirPath)
ReadDir(tree, dirPath) ==
    {path[Len(dirPath) + 1] : path \in {q \in tree : IsBelow(q, dirPath)}}

\* fs.statSync(filePath).isDirectory(), fs.existsSync(dirPath)
IsDirectory(tree, filePath) == \E q \in tree : IsBelow(q, filePath)

\* file === 'node_modules' || file.startsWith('.')
Skipped(file) == file = NodeModules \/ (Len(file) > 0 /\ file[1] = 46)

NeverSkipped(file) == FALSE

\* which entries a version leaves out
SkipRule(ver, file) ==
    IF ver = "generateA" THEN Skipped(file) ELSE NeverSkipped(file)

\* the files directly in dirPath only, no directory entered
addDirectoryTopLevel(ver, tree, dirPath, archiveDirName) ==
    UNION { IF SkipRule(ver, file) \/ IsDirectory(tree, Append(dirPath, file))
            THEN {}
            ELSE {Append(archiveDirName, file)}
          : file \in ReadDir(tree, dirPath) }

RECURSIVE addDirectoryToArchive(_, _, _, _)
\* the names of the entries appended for the directory dirPath
addDirectoryToArchive(ver, tree, dirPath, archiveDirName) ==
    UNION { IF SkipRule(ver, file) THEN {}
            ELSE IF IsDirectory(tree, Append(dirPath, file))
            THEN addDirectoryToArchive(ver, tree, Append(dirPath, file),
                                       Append(archiveDirName, file))
            ELSE {Append(archiveDirName, file)}
          : file \in ReadDir(tree, dirPath) }

RECURSIVE appendCalls(_, _, _, _)
\* the loop of addDirectoryToArchive over the names still to visit in
\* dirPath: the number of archive.append calls it makes
appendCalls(ver, tree, dirPath, files) ==
    IF files = {} THEN 0
    ELSE LET file == CHOOSE f \in files : TRUE
             rest == appendCalls(ver, tree, dirPath, files \ {file})
             filePath == Append(dirPath, file)
         IN  IF SkipRule(ver, file) THEN rest
             ELSE IF IsDirectory(tree, filePath)
             THEN appendCalls(ver, tree, filePath, ReadDir(tree, filePath))
                    + rest
             ELSE 1 + rest

AppendCalls(ver, tree) ==
    (IF IsDirectory(tree, <<FrontendDir>>)
     THEN appendCalls(ver, tree, <<FrontendDir>>,
                      ReadDir(tree, <<FrontendDir>>))
     ELSE 0)
    +
    (IF IsDirectory(tree, <<BackendDir>>)
     THEN appendCalls(ver, tree, <<BackendDir>>, ReadDir(tree, <<BackendDir>>))
     ELSE 0)

\* both roots, each when it exists
ArchiveEntries(ver, tree) ==
    (IF IsDirectory(tree, <<FrontendDir>>)
     THEN addDirectoryToArchive(ver, tree, <<FrontendDir>>, <<FrontendDir>>)
     ELSE {})
    \cup
    (IF IsDirectory(tree, <<BackendDir>>)
     THEN addDirectoryToArchive(ver, tree, <<BackendDir>>, <<BackendDir>>)
     ELSE {})

\* fs.readdirSync or fs.statSync throws inside the walk
WalkThrows(ver, tree) == ArchiveEntries(ver, tree) \cap Dangling # {}

EntryCode(entry) == CHOOSE i \in 1..Len(AllFiles) : File(i) = entry

RECURSIVE SortedCodes(_)
SortedCodes(codes) ==
    IF codes = {} THEN <<>>
    ELSE LET m == CHOOSE x \in codes : \A y \in codes : x <= y
         IN  <<m>> \o SortedCodes(codes \ {m})

\* the bytes of the archive: the zip signature 'PK' and one byte per entry
Zip(entries) == <<80, 75>> \o SortedCodes({EntryCode(e) : e \in entries})

\* 24 hours
CacheTtl == 86400

Lookup(st, key) == IF key \in DOMAIN st THEN st[key] ELSE Absent

PutIn(st, key, e) ==
    [k \in DOMAIN st \cup {key} |-> IF k = key THEN e ELSE st[k]]

\* what the function of getCache returns when both its reads are answered
GetResult(st, key) ==
    IF ~Lookup(st, key).present \/ Lookup(st, key).str = <<>>
    THEN Null
    ELSE Decode(Lookup(st, key).str, Lookup(st, TypeKey(key)))

\* the store once the function of setCache has issued all its commands
SetResult(st, a) ==
    LET marked == IF IsBuffer(a.value)
                  THEN PutIn(st, TypeKey(a.key), Entry(BufferMarker, a.ttl))
                  ELSE st
    IN  PutIn(marked, a.key, Entry(StringValue(a.value), a.ttl))

\* `if (!cachedData)`
Truthy(v) ==
    /\ v.kind \notin {"null", "undefined"}
    /\ ~(v.kind = "string" /\ v.data = <<>>)
    /\ v # BoolOf(FALSE)

\* one call of setCache, getCache or deleteCache run to its end in a state
\* with registry cb and store st; ok: the store answered in time
FacadeRun(cb, made, req, st, kind, key, value, ttl, ok) ==
    LET name == CacheBreaker(kind)
        a == CacheAction(kind, key, value, ttl)
        r == executeWithCircuitBreaker(cb, made[name], name, a,
                                       CacheFallback(kind), RedisOptions)
        b == r.registry[name]
        skipped == [registry |-> cb, made |-> made, request |-> req,
                    store |-> st, result |-> CacheFallback(kind),
                    captured |-> 0, ran |-> NoAction, how |-> "skipped"]
        made1 == [made EXCEPT ![name] = @ + r.made]
        req1 == IF req[name] = NoRequest
                THEN [req EXCEPT ![name] = [fn |-> a, options |-> RedisOptions]]
                ELSE req
        fired == [skipped EXCEPT !.made = made1, !.request = req1]
    IN  IF ~isRedisAvailable THEN skipped
        ELSE IF r.rejected
        THEN [fired EXCEPT !.registry = r.registry, !.result = r.fallback,
                           !.how = "reject"]
        ELSE IF ok
        THEN [fired EXCEPT
                !.how = "success",
                !.registry = [r.registry EXCEPT
                                 ![name] = RecordSuccess(b, r.trial)],
                !.store = IF r.action.op = "set" THEN SetResult(st, r.action)
                          ELSE IF r.action.op = "del"
                          THEN PutIn(st, r.action.key, Absent)
                          ELSE st,
                !.result = IF r.action.op = "get"
                           THEN GetResult(st, r.action.key)
                           ELSE IF r.action.op = "set" THEN Undefined
                           ELSE BoolOf(TRUE),
                !.ran = r.action]
        ELSE [fired EXCEPT
                !.registry = [r.registry EXCEPT
                                 ![name] = RecordFailure(b, r.trial)],
                !.result = r.fallback, !.captured = 1, !.ran = r.action,
                !.how = "failure"]

AddSent(stackName, body) ==
    [k \in DOMAIN sent \cup {stackName} |->
        IF k = stackName THEN (IF stackName \in DOMAIN sent THEN sent[stackName] ELSE {}) \cup {body} ELSE sent[k]]

\* generateStack(frontend, backend) up to its response or, on a cache miss
\* with a template, up to `await archive.finalize()`
\* limit: the requests and cache operations explored in flight together
GenerateStartWithin(limit, ver, frontend, backend, template, ok) ==
    LET verr == validateStackCombination(frontend, backend)
        stackName == StackNameOf(frontend, backend)
        key == "stack:" \o stackName
    IN  /\ template # NoTemplate => stackName \in Boilerplates
        /\ verr # NoError => (template = NoTemplate /\ ok)
        /\ Cardinality({t \in Slots : ~Free(t)}) < limit
        /\ TotalFires + 1 < MaxFires
        /\ UNCHANGED <<redisClient, redisEnabled, conn, written, sent, queues, apiKeys>>
        /\ \E g \in {FacadeRun(circuitBreakers, constructed, firstRequest, store,
                                "getCache", key, Null, 0, ok)} :
           LET cachedData == g.result
               hit == IF ver = "generateA"
                      THEN IsBuffer(cachedData) \/ cachedData.kind = "object"
                      ELSE Truthy(cachedData)
               entries == ArchiveEntries(ver, template)
               o == [NoObs EXCEPT !.kind = ver, !.key = stackName,
                         !.frontend = frontend, !.backend = backend,
                         !.avail = (redisClient # "null" /\ redisEnabled),
                         !.ran = g.ran, !.result = cachedData]
               answer(resp, how) ==
                   [o EXCEPT !.event = "deliver", !.via = how, !.sends = 1,
                             !.status = resp.status, !.error = resp.error,
                             !.detail = resp.detail, !.headers = resp.headers,
                             !.body = resp.body]
           IN
           IF verr # NoError
           THEN /\ last' = [NoObs EXCEPT !.kind = ver, !.key = stackName,
                               !.frontend = frontend, !.backend = backend,
                               !.avail = (redisClient # "null" /\ redisEnabled),
                               !.event = "deliver", !.via = "invalid",
                               !.sends = 1,
                               !.status = 400, !.error = verr.error,
                               !.options = verr.options,
                               !.headers = sendErrorResponse(ver, 400,
                                               verr.error, "").headers]
                /\ captured' = 0
                /\ UNCHANGED <<circuitBreakers, constructed, firstRequest,
                               tasks, store>>
           ELSE /\ circuitBreakers' = g.registry
                /\ constructed' = g.made
                /\ firstRequest' = g.request
                /\ store' = g.store
                /\ captured' = g.captured
                /\ IF hit /\ ver = "generateA"
                   THEN /\ last' = answer(
                             Response(200, "none", "",
                                 CorsHeaders \cup ZipHeaders(stackName),
                                 IF IsBuffer(cachedData) THEN cachedData
                                 ELSE StringOf(JsonStringify(cachedData))),
                             "hit")
                        /\ UNCHANGED tasks
                   ELSE IF hit
                   THEN \* version B: handleStackCache saves the data again
                        /\ last' = [o EXCEPT !.event = "fire", !.via = "hit"]
                        /\ tasks' = [tasks EXCEPT ![FirstFree] =
                              [IdleTask EXCEPT !.kind = ver, !.pc = "resave",
                                  !.key = stackName, !.value = cachedData,
                                  !.avail = isRedisAvailable]]
                   ELSE IF ~findStackPath(ver, stackName, template)
                   THEN /\ last' = answer(
                             handleMissingStack(ver, frontend, backend,
                                                stackName), "missing")
                        /\ UNCHANGED tasks
                   ELSE IF WalkThrows(ver, template)
                   THEN \* catch block of generateStack, after the zip
                        \* headers were set on the reply
                        /\ last' = [answer(
                               Response(500, "Server error", "",
                                  sendErrorResponse(ver, 500, "Server error",
                                                    "").headers
                                    \cup ZipHeaders(stackName), Null),
                               "walkError") EXCEPT !.walked = TRUE]
                        /\ UNCHANGED tasks
                   ELSE /\ last' = [o EXCEPT !.event = "fire", !.via = "miss",
                                       !.walked = TRUE, !.entries = entries,
                                       !.tree = template,
                                       !.appended =
                                           AppendCalls(ver, template)]
                        /\ tasks' = [tasks EXCEPT ![FirstFree] =
                              [IdleTask EXCEPT !.kind = ver, !.pc = "stream",
                                  !.key = stackName,
                                  !.value = BufferOf(Zip(entries)),
                                  !.avail = isRedisAvailable]]

GenerateStart(ver, frontend, backend, template, ok) ==
    GenerateStartWithin(MaxPending, ver, frontend, backend, template, ok)

\* what the client of a cache miss has received when createAndSendArchive
\* returns; saved: how the cache write went.  With a failed cache write
\* answered by an error:
StreamResponseFailsWithCache(kind, stackName, bytes, saved) ==
    IF saved = "failure"
    THEN Response(500, "Server error", "", {}, Null)
    ELSE Response(200, "none", "",
                  IF kind = "generateA"
                  THEN CorsHeaders \cup ZipHeaders(stackName)
                  ELSE ZipHeaders(stackName), bytes)

StreamResponse(kind, stackName, bytes, saved) ==
    Response(200, "none", "",
             IF kind = "generateA" THEN CorsHeaders \cup ZipHeaders(stackName)
             ELSE ZipHeaders(stackName), bytes)

\* the bodies sent for a cache miss whose archive is complete: the archive
\* piped to the raw response and, in the second controller when the bytes
\* go to the cache, reply.send(data) at the end of handleStackCache.
Sends(kind, write) == IF kind = "generateB" /\ write THEN 2 ELSE 1

\* the chunks createAndSendArchive has collected when the archive is
\* complete: cacheStream is piped only when the cache was available as the
\* archive was opened.  Collected whatever the cache said:
cacheBuffersAlways(availAtOpen, body) == body.data

cacheBuffers(availAtOpen, body) == IF availAtOpen THEN body.data ELSE <<>>

\* `if (isRedisAvailable() && cacheBuffers.length > 0)`
SavesToCache(availNow, buffers) == availNow /\ Len(buffers) > 0

\* archive.finalize() resolves: the client has the whole archive; the bytes
\* go to the cache when they were collected and the cache is available
StreamEnd(t, ok) ==
    LET task == tasks[t]
        stackName == task.key
        write == SavesToCache(isRedisAvailable,
                              cacheBuffers(task.avail, task.value))
    IN  /\ task.pc = "stream"
        /\ tasks' = [tasks EXCEPT ![t] = IdleTask]
        /\ sent' = IF task.avail THEN AddSent(stackName, task.value) ELSE sent
        /\ UNCHANGED <<queues, apiKeys>>
        /\ \E w \in {FacadeRun(circuitBreakers, constructed, firstRequest, store,
                                "setCache", "stack:" \o stackName, task.value,
                                CacheTtl, ok)} :
           LET saved == IF write THEN w.how
                        ELSE "skipped"
               resp == StreamResponse(task.kind, stackName, task.value, saved)
           IN
           /\ last' = [NoObs EXCEPT !.kind = task.kind, !.key = stackName,
                          !.event = "deliver", !.via = "miss",
                          !.status = resp.status, !.error = resp.error,
                          !.headers = resp.headers, !.body = resp.body,
                          !.walked = TRUE, !.avail = task.avail,
                          !.saved = saved,
                          !.sends = Sends(task.kind, write),
                          !.ran = IF write THEN w.ran
                                  ELSE NoAction]
           /\ IF write
              THEN /\ circuitBreakers' = w.registry
                   /\ constructed' = w.made
                   /\ firstRequest' = w.request
                   /\ store' = w.store
                   /\ captured' = w.captured
              ELSE /\ captured' = 0
                   /\ UNCHANGED <<circuitBreakers, constructed, firstRequest,
                                  store>>
           /\ UNCHANGED <<redisClient, redisEnabled, conn, written>>

\* the archive emits 'error' while it is streamed: the listener registered by
\* createAndSendArchive throws the error again, outside every try block, and
\* the process-level handler ends the process; started: bytes had gone out
StreamFail(t, started) ==
    LET task == tasks[t]
    IN  /\ task.pc = "stream"
        /\ tasks' = [u \in Slots |-> [IdleTask EXCEPT !.pc = "exited"]]
        /\ last' = [NoObs EXCEPT !.kind = task.kind, !.key = task.key,
                       !.event = "deliver", !.via = "streamError",
                       !.status = IF started THEN 200 ELSE 0,
                       !.sends = IF started THEN 1 ELSE 0,
                       !.headers = IF started
                                   THEN StreamResponse(task.kind, task.key,
                                                       Null, "none").headers
                                   ELSE {},
                       !.walked = TRUE, !.avail = task.avail,
                       !.escaped = TRUE]
        /\ captured' = 0
        /\ UNCHANGED <<circuitBreakers, constructed, firstRequest, store,
                       redisClient, redisEnabled, conn, written, sent, queues, apiKeys>>

\* handleStackCache(stackName, cachedData, reply) of version B after a hit:
\* saveToCache resolves and the cached data are sent
HitSave(t, ok) ==
    LET task == tasks[t]
        stackName == task.key
    IN  /\ task.pc = "resave"
        /\ tasks' = [tasks EXCEPT ![t] = IdleTask]
        /\ UNCHANGED <<redisClient, redisEnabled, conn, written, sent, queues, apiKeys>>
        /\ \E w \in {FacadeRun(circuitBreakers, constructed, firstRequest, store,
                                "setCache", "stack:" \o stackName, task.value,
                                CacheTtl, ok)} :
              /\ last' = [NoObs EXCEPT !.kind = task.kind, !.key = stackName,
                             !.event = "deliver", !.via = "hit", !.status = 200,
                             !.sends = 1,
                             !.headers = ZipHeaders(stackName),
                             !.body = task.value, !.avail = task.avail,
                             !.result = task.value, !.ran = w.ran]
              /\ circuitBreakers' = w.registry
              /\ constructed' = w.made
              /\ firstRequest' = w.request
              /\ store' = w.store
              /\ captured' = w.captured

\* the object the Redis test route stores
TestData == ObjectOf(<<116>>)

\* GET /debug/redis up to the end of setCache('debug-test-key', testData, 60)
DebugRedis(ok) ==
    LET o == [NoObs EXCEPT !.kind = "debugRedis", !.key = "debug-test-key",
                  !.value = TestData,
                  !.avail = (redisClient # "null" /\ redisEnabled)]
    IN  /\ Cardinality({t \in Slots : ~Free(t)}) < MaxPending
        /\ TotalFires + 1 < MaxFires
        /\ UNCHANGED <<redisClient, redisEnabled, conn, written, sent, queues, apiKeys>>
        /\ IF ~isRedisAvailable
           THEN /\ last' = [o EXCEPT !.event = "deliver", !.status = 200,
                                     !.via = "disconnected"]
                /\ captured' = 0
                /\ UNCHANGED <<circuitBreakers, constructed, firstRequest,
                               store, tasks>>
           ELSE \E w \in {FacadeRun(circuitBreakers, constructed, firstRequest,
                                     store, "setCache", "debug-test-key",
                                     TestData, 60, ok)} :
                /\ circuitBreakers' = w.registry
                /\ constructed' = w.made
                /\ firstRequest' = w.request
                /\ store' = w.store
                /\ captured' = w.captured
                /\ last' = [o EXCEPT !.event = "fire", !.ran = w.ran]
                /\ tasks' = [tasks EXCEPT ![FirstFree] =
                      [IdleTask EXCEPT !.kind = "debugRedis", !.pc = "retrieve",
                          !.key = "debug-test-key", !.value = TestData,
                          !.avail = TRUE]]

\* the route's getCache('debug-test-key') and its answer
DebugRetrieve(t, ok) ==
    LET task == tasks[t]
    IN  /\ task.pc = "retrieve"
        /\ tasks' = [tasks EXCEPT ![t] = IdleTask]
        /\ UNCHANGED <<redisClient, redisEnabled, conn, written, sent, queues, apiKeys>>
        /\ \E g \in {FacadeRun(circuitBreakers, constructed, firstRequest, store,
                                "getCache", task.key, Null, 0, ok)} :
              /\ circuitBreakers' = g.registry
              /\ constructed' = g.made
              /\ firstRequest' = g.request
              /\ store' = g.store
              /\ captured' = g.captured
              /\ last' = [NoObs EXCEPT !.kind = "debugRedis",
                             !.event = "deliver", !.key = task.key,
                             !.value = task.value, !.avail = task.avail,
                             !.result = g.result, !.status = 200,
                             !.via = "connected", !.ran = g.ran]

FrontendInputs == Frontends \cup {"php", ""}
BackendInputs == Backends \cup {"rails", ""}
Versions == {"generateA", "generateB"}

\* the breaker of setCache after the writes of the Redis test route timed
\* out and its window rolled over
OpenSetBreaker ==
    OpenBreaker(NewBreaker(1, SetAction("debug-test-key", TestData, 60),
                           MergeOptions(RedisOptions)))

InitGenOpen ==
    /\ circuitBreakers = [n \in AllNames |->
                             IF n = "redis-set" THEN OpenSetBreaker
                             ELSE NoBreaker]
    /\ constructed = [n \in AllNames |-> IF n = "redis-set" THEN 1 ELSE 0]
    /\ firstRequest = [n \in AllNames |->
                          IF n = "redis-set"
                          THEN [fn |-> SetAction("debug-test-key", TestData, 60),
                                options |-> RedisOptions]
                          ELSE NoRequest]
    /\ tasks = [t \in Slots |-> IdleTask]
    /\ queues = [n \in QueueNames |-> NoQueue]
    /\ apiKeys = NoKeys
    /\ captured = 0
    /\ last = NoObs
    /\ redisClient = "client"
    /\ conn = [socket |-> "ready", retries |-> 0]

InitGen ==
    /\ store = <<>>
    /\ written = <<>>
    /\ sent = <<>>
    /\ \/ InitBase /\ redisClient = "null" /\ conn = NoConn
       \/ /\ InitBase /\ redisClient = "client"
          /\ conn = [socket |-> "ready", retries |-> 0]
       \/ InitGenOpen
    /\ redisEnabled = TRUE

\* requests of every class (implemented, recognised, unlisted, incompatible,
\* unsupported) against the cache
NextGen ==
    \/ \E ver \in Versions, f \in {"react", "vue", "php"},
          b \in {"express", "nest", "django"},
          template \in {{File(1), File(2)}, {File(4), File(5)}, NoTemplate},
          ok \in BOOLEAN :
          GenerateStart(ver, f, b, template, ok)
    \/ \E t \in Slots, ok \in BOOLEAN : StreamEnd(t, ok)
    \/ \E t \in Slots, started \in BOOLEAN : StreamFail(t, started)
    \/ \E ok \in BOOLEAN : DebugRedis(ok)
    \/ \E t \in Slots, ok \in BOOLEAN : DebugRetrieve(t, ok)
    \/ \E t \in Slots, ok \in BOOLEAN : HitSave(t, ok)

SpecGen == InitGen /\ [][NextGen]_vars

\* requests while the connection to the store comes and goes
InitAvail ==
    /\ InitBase
    /\ store = <<>>
    /\ written = <<>>
    /\ sent = <<>>
    /\ redisClient = "null"
    /\ redisEnabled = TRUE
    /\ conn = NoConn

NextAvail ==
    \/ \E ver \in Versions, template \in {{File(1), File(2)}, NoTemplate},
          ok \in BOOLEAN :
          GenerateStart(ver, "react", "express", template, ok)
    \/ \E t \in Slots, ok \in BOOLEAN : StreamEnd(t, ok)
    \/ \E t \in Slots, ok \in BOOLEAN : HitSave(t, ok)
    \/ InitRedis
    \/ Connected
    \/ ConnectFail
    \/ ErrorHandler

SpecAvail == InitAvail /\ [][NextAvail]_vars

----------------------------------------------------------------------------
(* Requests for one stack in flight together, the store answering the
   commands of setCache one at a time *)

RaceStack == "react-express"
RaceKey == "stack:" \o RaceStack

\* archive.finalize() resolves for the request of slot t: its client has the
\* whole archive, and setCache runs up to its first store command
FinalizeAndSet(t) ==
    LET task == tasks[t]
        stackName == task.key
        key == "stack:" \o stackName
        a == SetAction(key, task.value, CacheTtl)
        r == executeWithCircuitBreaker(circuitBreakers, constructed["redis-set"],
                 "redis-set", a, CacheFallback("setCache"), RedisOptions)
        write == SavesToCache(isRedisAvailable,
                              cacheBuffers(task.avail, task.value))
        resp == StreamResponse(task.kind, stackName, task.value, "none")
        o == [NoObs EXCEPT !.kind = task.kind, !.key = stackName,
                  !.event = "deliver", !.via = "miss",
                  !.status = resp.status, !.error = resp.error,
                  !.headers = resp.headers, !.body = resp.body,
                  !.walked = TRUE, !.avail = task.avail,
                  !.sends = Sends(task.kind, FALSE)]
    IN  /\ task.pc = "stream"
        /\ sent' = IF task.avail THEN AddSent(stackName, task.value) ELSE sent
        /\ captured' = 0
        /\ UNCHANGED <<store, written, queues, apiKeys, redisClient, redisEnabled,
                       conn>>
        /\ IF ~write
           THEN /\ last' = [o EXCEPT !.saved = "skipped"]
                /\ tasks' = [tasks EXCEPT ![t] = IdleTask]
                /\ UNCHANGED <<circuitBreakers, constructed, firstRequest>>
           ELSE /\ circuitBreakers' = r.registry
                /\ constructed' = [constructed EXCEPT !["redis-set"] = @ + r.made]
                /\ firstRequest' = Remember("redis-set", a, RedisOptions)
                /\ IF r.rejected
                   THEN /\ last' = [o EXCEPT !.saved = "reject"]
                        /\ tasks' = [tasks EXCEPT ![t] = IdleTask]
                   ELSE /\ last' = [o EXCEPT !.saved = "pending",
                                             !.ran = r.action]
                        /\ tasks' = [tasks EXCEPT ![t] =
                              [IdleTask EXCEPT !.kind = "setCache",
                                  !.name = "redis-set", !.key = key,
                                  !.value = task.value, !.ttl = CacheTtl,
                                  !.avail = TRUE, !.action = r.action,
                                  !.trial = r.trial,
                                  !.pc = FirstPc(r.action), !.touched = 1]]

InitRace ==
    /\ InitBase
    /\ store = [k \in StoreKeys \cup {RaceKey, TypeKey(RaceKey)} |-> Absent]
    /\ written = [k \in CacheKeys |-> Null]
    /\ sent = <<>>
    /\ redisClient = "client"
    /\ redisEnabled = TRUE
    /\ conn = [socket |-> "ready", retries |-> 0]

NextRace ==
    \/ \E template \in {{File(1), File(2)}, {File(4), File(5)}} :
          GenerateStartWithin(MaxTasks, "generateA", "react", "express",
                              template, TRUE)
    \/ \E t \in Slots : FinalizeAndSet(t)
    \/ \E t \in Slots : StoreStep(t)
    \/ DebugRedis(TRUE)
    \/ \E t \in Slots : DebugRetrieve(t, TRUE)

SpecRace == InitRace /\ [][NextRace]_vars

\* every pair of inputs and every template tree, the cache never initialised
InitNoCache == InitBase /\ NoRedis

NextNoCache ==
    \/ \E ver \in Versions, f \in FrontendInputs, b \in BackendInputs,
          template \in Trees \cup {NoTemplate} :
          GenerateStart(ver, f, b, template, TRUE)
    \/ \E t \in Slots : StreamEnd(t, TRUE)
    \/ \E t \in Slots, started \in BOOLEAN : StreamFail(t, started)

SpecNoCache == InitNoCache /\ [][NextNoCache]_vars

----------------------------------------------------------------------------
(* Claims on the circuit breaker *)

DefaultVolumeThreshold == 5
DefaultErrorThreshold == 50

\* thresholds asked for by the first request for breaker n
RequestedErrorThreshold(n) ==
    IF "errorThresholdPercentage" \in DOMAIN firstRequest[n].options
    THEN firstRequest[n].options.errorThresholdPercentage
    ELSE DefaultErrorThreshold

RequestedVolumeThreshold(n) ==
    IF "volumeThreshold" \in DOMAIN firstRequest[n].options
    THEN firstRequest[n].options.volumeThreshold
    ELSE DefaultVolumeThreshold

Delivered == last.event = "deliver"
Started == last.event \in {"fire", "deliver"} /\ last.stateAtFire # "none"

\* C3: when a call on a closed breaker completes and the window then holds
\* at least the requested minimum volume of calls with a failure percentage
\* above the requested error threshold, the breaker is open; an open breaker
\* has its reset timer running and every call that finds it open is
\* rejected without invoking the wrapped function.
C3_OpensAndRejects ==
    /\ ( Delivered /\ last.invoked /\ last.stateBefore = "closed"
         /\ circuitBreakers[last.name].fires >= RequestedVolumeThreshold(last.name)
         /\ circuitBreakers[last.name].failures * 100
              > RequestedErrorThreshold(last.name) * circuitBreakers[last.name].fires )
        => circuitBreakers[last.name].state = "open"
    /\ \A n \in AllNames :
          circuitBreakers[n].state = "open" => circuitBreakers[n].timer
    /\ (Started /\ last.stateAtFire = "open")
        => /\ ~last.invoked
           /\ last.event = "deliver"
           /\ last.via = "reject"

\* a call is rejected by a breaker that a failure opened at a failure
\* percentage of 40, above the requested 25 and below the default 50
C3_Witness ==
    /\ Delivered /\ last.via = "reject" /\ last.stateAtFire = "open"
    /\ ~last.invoked
    /\ RequestedErrorThreshold(last.name) = 25
    /\ circuitBreakers[last.name].fires = 5
    /\ circuitBreakers[last.name].failures = 2

Trials(n) == {t \in Slots : tasks[t].name = n /\ tasks[t].trial
                              /\ ~tasks[t].delivered}

\* C4: in the half-open state the first call is let through as the trial
\* and every call arriving while the trial runs is rejected; a trial that
\* succeeds leaves the breaker closed, a trial that fails or times out
\* leaves it open with the reset timer running again; a closed breaker lets
\* calls through.
C4_HalfOpenTrial ==
    /\ \A n \in AllNames :
          /\ Cardinality(Trials(n)) <= 1
          /\ circuitBreakers[n].state = "halfOpen"
                => (circuitBreakers[n].pendingClose <=> Trials(n) = {})
    /\ (Started /\ last.stateAtFire = "halfOpen")
        => IF last.pendingAtFire
           THEN last.invoked /\ last.trial /\ last.event = "fire"
           ELSE ~last.invoked /\ last.via = "reject"
    /\ (Started /\ last.stateAtFire = "closed") => last.invoked
    /\ (Delivered /\ last.trial /\ last.via = "success")
        => circuitBreakers[last.name].state = "closed"
    /\ (Delivered /\ last.trial /\ last.via \in {"failure", "timeout"})
        => /\ circuitBreakers[last.name].state = "open"
           /\ circuitBreakers[last.name].timer

\* a trial failed and the breaker is open again with its timer running
C4_Witness ==
    /\ Delivered /\ last.trial /\ last.via = "timeout"
    /\ circuitBreakers[last.name].state = "open"
    /\ circuitBreakers[last.name].timer

\* C5: every name has been constructed at most once, a registered name
\* holds the instance made for the first request, with the function and
\* the merged options of that request, and a repeated creation request
\* returns that instance.
C5_OneBreakerPerName ==
    /\ \A n \in AllNames :
          /\ constructed[n] <= 1
          /\ (circuitBreakers[n].id # 0) <=> (constructed[n] = 1)
          /\ circuitBreakers[n].id # 0 =>
                /\ circuitBreakers[n].id = 1
                /\ circuitBreakers[n].action = firstRequest[n].fn
                /\ circuitBreakers[n].options
                     = MergeOptions(firstRequest[n].options)
    /\ last.event = "create" => last.instance = 1

\* a second creation request, with another function, for a registered name
C5_Witness ==
    /\ last.event = "create"
    /\ last.stateBefore # "none"
    /\ FnAction(last.fn) # firstRequest[last.name].fn
    /\ circuitBreakers[last.name].options # MergeOptions(NoOptions)
    /\ \E m \in RegistryNames \ {last.name} : circuitBreakers[m].id # 0

\* C7: a call on an open breaker that passes a fallback resolves with that
\* fallback's value; a call that passes none rejects with the circuit-open
\* error.
C7_OpenFallbackOrError ==
    (Delivered /\ last.kind = "exec" /\ last.stateAtFire = "open")
    => IF last.passedFallback # NoFallback
       THEN last.outcome = "resolved" /\ last.result = last.passedFallback
       ELSE last.outcome = "rejected" /\ last.error = "EOPENBREAKER"

CacheKinds == {"setCache", "getCache", "deleteCache"}

Unavailable == redisClient = "null" \/ ~redisEnabled

\* C1: a cache operation that finds the client missing or disabled resolves
\* to null (getCache), nothing (setCache) or false (deleteCache) without
\* running its store function, issuing a store command or changing the
\* store; no cache operation ever rejects, and one that did not succeed
\* (availability lost after the check included) resolves to the same values.
C1_CacheNeverRejects ==
    /\ []( (Delivered /\ last.kind \in CacheKinds)
            => /\ last.outcome = "resolved"
               /\ (~last.avail =>
                     /\ ~last.invoked
                     /\ last.touched = 0
                     /\ last.result = CacheFallback(last.kind))
               /\ (last.via # "success" =>
                     last.result = CacheFallback(last.kind)) )
    /\ [][ (Unavailable /\ last'.kind \in CacheKinds
              /\ (last'.event = "fire"
                    \/ (last'.event = "deliver" /\ ~last'.invoked)))
           => /\ last'.via = "unavailable"
              /\ store' = store /\ tasks' = tasks
              /\ circuitBreakers' = circuitBreakers ]_vars

\* getCache answered null after the client gave up reconnecting
C1_Witness ==
    /\ Delivered /\ last.kind = "getCache"
    /\ ~last.avail /\ redisClient # "null" /\ ~redisEnabled
    /\ last.result = Null

\* a cache operation started while available is delivered as a failure after
\* the client gave up reconnecting
C1_WitnessLost ==
    /\ Delivered /\ last.kind \in CacheKinds
    /\ last.avail /\ last.invoked
    /\ last.via = "failure"
    /\ Unavailable

\* C2: getCache(k) that completes from the store after setCache(k, b) of a
\* binary payload b completed, with no command changing k in between,
\* returns a binary payload equal to b byte for byte.
C2_BinaryRoundTrip ==
    ( Delivered /\ last.kind = "getCache" /\ last.via = "success"
      /\ IsBuffer(written[last.key]) )
    => last.result = written[last.key]

\* C6: every data-access wrapper resolves; whenever the store operation did
\* not succeed (it rejected, it timed out, or the open breaker refused the
\* call) safeFind resolves to [] and the other four resolve to null.
C6_DbNeverRejects ==
    (Delivered /\ last.kind \in DbKinds)
    => /\ last.outcome = "resolved"
       /\ (last.via # "success" =>
             last.result = IF last.kind = "safeFind" THEN EmptyArray ELSE Null)

\* safeFind refused by the open breaker answers []
C6_Witness ==
    /\ Delivered /\ last.kind = "safeFind"
    /\ last.via = "reject" /\ last.stateAtFire = "open"
    /\ last.result = EmptyArray

C6_WitnessTimeout ==
    /\ Delivered /\ last.kind = "safeCreate"
    /\ last.via = "timeout" /\ last.result = Null

C6_WitnessError ==
    /\ Delivered /\ last.kind = "safeDeleteOne"
    /\ last.via = "failure" /\ last.result = Null

----------------------------------------------------------------------------
(* Claims on stack generation *)

\* C8: a response served from the cache for an implemented stack carries
\* exactly the bytes that an earlier cache-miss response for the same stack
\* sent, under the same zip download headers, and the request that gets it
\* walks no directory and compresses nothing.
C8_HitServesEarlierBytes ==
    ( Delivered /\ last.kind \in Versions /\ last.via = "hit"
      /\ last.key \in implemented )
    => /\ last.key \in DOMAIN sent
       /\ last.body \in sent[last.key]
       /\ ZipHeaders(last.key) \subseteq last.headers
       /\ ~last.walked
       /\ last.entries = {}

\* the hits that do serve an earlier response's archive
C8_HitAfterMiss ==
    /\ Delivered /\ last.kind = "generateA" /\ last.via = "hit"
    /\ last.key \in implemented
    /\ last.key \in DOMAIN sent
    /\ last.body \in sent[last.key]

\* C9: whatever the template tree, no entry of the archive built on a cache
\* miss has a path component named node_modules or beginning with a dot.
C9_NoSkippedEntries ==
    ( last.kind \in Versions /\ last.via = "miss" /\ last.walked
      /\ last.event = "fire" )
    => \A entry \in last.entries :
          \A i \in 1..Len(entry) :
             /\ entry[i] # NodeModules
             /\ ~(Len(entry[i]) > 0 /\ entry[i][1] = 46)

\* the first version of the controller keeps the property
C9_NoSkippedEntriesA ==
    ( last.kind = "generateA" /\ last.via = "miss" /\ last.walked
      /\ last.event = "fire" )
    => \A entry \in last.entries :
          \A i \in 1..Len(entry) :
             /\ entry[i] # NodeModules
             /\ ~(Len(entry[i]) > 0 /\ entry[i][1] = 46)

C9_WitnessA ==
    /\ last.kind = "generateA" /\ last.via = "miss" /\ last.walked
    /\ last.event = "fire"
    /\ last.entries = {File(1), File(4)}

InDevelopmentErrors ==
    { [status |-> 404, error |-> "Stack in development",
       detail |-> "coming_soon"],
      [status |-> 501, error |-> "Stack not implemented",
       detail |-> "planned"] }

NotFoundErrors ==
    { [status |-> 404, error |-> "Stack not available yet", detail |-> ""],
      [status |-> 404, error |-> "Stack not found", detail |-> "unavailable"] }

ErrorOf(obs) ==
    [status |-> obs.status, error |-> obs.error, detail |-> obs.detail]

C10_WitnessUnlisted ==
    /\ Delivered /\ last.kind = "generateA" /\ last.via = "missing"
    /\ last.key = "react-nest"
    /\ last.status = 404 /\ last.error = "Stack not available yet"

\* C11: validateStackCombination accepts a pair exactly when the frontend is
\* supported, the backend is supported and the backend is listed for the
\* frontend; otherwise the answer is the error of the first failing check in
\* the order frontend, backend, compatibility, with the valid choices of
\* that check (express, fastify, nest for react with django).
C11_FirstFailingCheck ==
    ( last.kind \in Versions /\ last.event \in {"fire", "deliver"}
      /\ last.key = StackNameOf(last.frontend, last.backend) )
    => LET f == last.frontend
           b == last.backend
       IN  /\ (last.via # "invalid")
                <=> (f \in Frontends /\ b \in Backends /\ b \in compatibility(f))
           /\ (last.via = "invalid" /\ f \notin Frontends)
                => /\ last.error = "Unsupported frontend: " \o f
                   /\ last.options
                        = {"react", "nextjs", "vue", "angular", "svelte"}
           /\ (last.via = "invalid" /\ f \in Frontends /\ b \notin Backends)
                => /\ last.error = "Unsupported backend: " \o b
                   /\ last.options
                        = {"express", "fastify", "nest", "django", "laravel"}
           /\ (last.via = "invalid" /\ f \in Frontends /\ b \in Backends)
                => /\ last.error = "Incompatible stack combination: " \o f
                                      \o " with " \o b
                   /\ last.options = compatibility(f)
                   /\ b \notin last.options
           /\ (f = "react" /\ b = "django")
                => /\ last.via = "invalid"
                   /\ last.options = {"express", "fastify", "nest"}
           /\ (f = "react" /\ b = "express") => last.via # "invalid"
           /\ last.via = "invalid" => last.status = 400

C11_Witness ==
    /\ Delivered /\ last.kind = "generateB" /\ last.via = "invalid"
    /\ last.frontend = "react" /\ last.backend = "django"
    /\ last.options = {"express", "fastify", "nest"}

C11_WitnessBothUnsupported ==
    /\ Delivered /\ last.via = "invalid"
    /\ last.frontend = "php" /\ last.backend = "rails"
    /\ last.error = "Unsupported frontend: php"

C12_WitnessRefused ==
    /\ Delivered /\ last.kind \in Versions /\ last.via = "miss"
    /\ last.saved = "reject" /\ last.status = 200 /\ IsBuffer(last.body)

C12_WitnessWritten ==
    /\ Delivered /\ last.kind \in Versions /\ last.via = "miss"
    /\ last.saved = "success" /\ last.status = 200 /\ IsBuffer(last.body)

\* C13: a request whose archive meets a filesystem or compression error,
\* during the walk or while it is streamed, ends with a response of the 500
\* class, and the error stays inside the request handler.
C13_ArchiveErrorIs500 ==
    ( Delivered /\ last.kind \in Versions
      /\ last.via \in {"walkError", "streamError"} )
    => /\ last.status \in 500..599
       /\ ~last.escaped

\* the errors thrown by the walk itself are answered that way
C13_WalkErrorIs500 ==
    ( Delivered /\ last.kind \in Versions /\ last.via = "walkError" )
    => /\ last.status = 500 /\ last.error = "Server error"
       /\ ~last.escaped

C13_WitnessWalk ==
    /\ Delivered /\ last.kind = "generateA" /\ last.via = "walkError"
    /\ last.status = 500

----------------------------------------------------------------------------
(* Claims on the connection to the cache *)

GaveUp == conn.socket = "closed"

\* C14: from the moment the reconnect strategy has given up, the cache is
\* unavailable in every later state and no connection is made again,
\* whichever client events follow.
C14_DisabledForGood ==
    /\ [](GaveUp => ~isRedisAvailable)
    /\ [][GaveUp => (GaveUp' /\ ~isRedisAvailable')]_vars

\* the strategy itself does disable the cache when it gives up, and the
\* 'error' and 'reconnecting' handlers leave it disabled
C14_DisabledAtGiveUp ==
    (GaveUp /\ last.event \in {"connectFail", "error", "reconnecting"})
    => ~isRedisAvailable

C14_WitnessGiveUp ==
    /\ GaveUp /\ last.event = "connectFail" /\ ~isRedisAvailable
    /\ conn.retries = MaxRetries + 1

\* C15: isRedisAvailable() is true only when a connection was established
\* and the cache was not disabled afterwards: it is false before initRedis,
\* while the first connection attempt is pending, and after the disable.
C15_AvailableOnlyConnected ==
    isRedisAvailable
    => /\ redisClient # "null"
       /\ ~(conn.socket = "connecting" /\ conn.retries = 0)
       /\ ~GaveUp

\* before initRedis the cache is unavailable
C15_FalseBeforeInit ==
    redisClient = "null" => ~isRedisAvailable

C15_WitnessBeforeInit ==
    redisClient = "null" /\ conn = NoConn /\ ~isRedisAvailable

----------------------------------------------------------------------------
(* Claims on the database wrappers, second part *)

Running == {t \in Slots : tasks[t].pc = "running"}

\* C16: a call of one of the five safe wrappers runs the store operation at
\* most once: an operation starts only in the step of the call itself, one
\* at a time, and no step that ends a call starts another; and a call whose
\* store operation failed has reported to captureException exactly once.
C16_OnceAndReportedOnce ==
    /\ []( (Delivered /\ last.kind \in DbKinds)
           => /\ last.via \in {"failure", "timeout"} => captured = 1
              /\ last.via = "failure" => (last.invoked /\ last.ran.op = "db")
              /\ last.via \in {"success", "reject"} => captured = 0
              /\ last.via = "reject" => ~last.invoked )
    /\ [][ /\ Cardinality(Running' \ Running) <= 1
           /\ Running' \ Running # {}
                => (last'.event = "fire" /\ last'.kind \in DbKinds)
           /\ (last'.event \in {"deliver", "late"} /\ last'.via # "reject")
                => Running' \subseteq Running ]_vars

C16_Witness ==
    /\ Delivered /\ last.kind = "safeFindOne" /\ last.via = "failure"
    /\ last.invoked /\ captured = 1 /\ last.result = Null

----------------------------------------------------------------------------
(* Claims on the health report *)

Registered == {n \in AllNames : circuitBreakers[n].id # 0}

\* C17: getCircuitBreakersHealth answers with one entry for each registered
\* breaker name and no other, and the state of each entry is the state the
\* breaker is in at that moment: closed, open or half-open.
C17_HealthIsState ==
    last.event = "health"
    => /\ DOMAIN last.health = Registered
       /\ \A n \in Registered :
             last.health[n].state
               = (IF circuitBreakers[n].state = "halfOpen" THEN "half-open"
                  ELSE circuitBreakers[n].state)

\* the names are right, and a breaker that is closed is reported closed
C17_HealthNames ==
    last.event = "health"
    => /\ DOMAIN last.health = Registered
       /\ \A n \in Registered :
             circuitBreakers[n].state = "closed"
               => last.health[n].state = "closed"

C17_WitnessTwoClosed ==
    /\ last.event = "health" /\ DOMAIN last.health = {"svc-a", "svc-b"}
    /\ circuitBreakers["svc-b"].fires = 0
    /\ last.health["svc-b"].state = "closed"

----------------------------------------------------------------------------
(* Claims on the job queues *)

\* C18: initQueue called while the cache store is unavailable answers null
\* and leaves the stored queues as they were; getQueue answers null for a
\* name no initQueue ever succeeded for; addJob for such a name answers null,
\* adds no job and does not throw.
C18_NoQueueWithoutStore ==
    /\ [](/\ (last.event = "initQueue" /\ ~last.avail) => last.detail = "null"
          /\ (last.event \in {"getQueue", "addJob"} /\ last.touched = 0)
                => last.detail = "null" /\ last.outcome = "resolved"
          /\ \A n \in QueueNames :
                queues[n].made = 0 => queues[n].queue = 0 /\ queues[n].jobs = 0)
    /\ [][(last'.event = "initQueue" /\ ~last'.avail) => queues' = queues]_vars

C18_WitnessUnavailable ==
    /\ last.event = "initQueue" /\ ~last.avail /\ last.detail = "null"
    /\ redisClient = "client" /\ ~redisEnabled
    /\ queues[last.name].queue = 0

C18_WitnessAddJob ==
    /\ last.event = "addJob" /\ last.name = "export" /\ last.detail = "null"
    /\ queues["export"].made = 0 /\ queues["generation"].jobs > 0

C18_WitnessGetQueue ==
    /\ last.event = "getQueue" /\ last.name = "export" /\ last.detail = "null"
    /\ queues["generation"].queue # 0

----------------------------------------------------------------------------
(* Claims on requests for one stack that miss together *)

Quiet == \A t \in Slots : Free(t)

LastWriteDone ==
    /\ Quiet
    /\ last.event = "deliver" /\ last.kind = "setCache"
    /\ last.via = "success" /\ last.key = RaceKey

\* C19: when requests for one stack miss the cache together, each is
\* answered 200 with a whole archive and issues a cache write, and once the
\* last write has completed the entry stack:<stack> with its type marker
\* decodes to an archive that one of the requests sent.
C19_OneWriterEntry ==
    /\ (last.via = "miss" /\ last.event = "deliver" /\ last.saved = "pending")
          => /\ last.status = 200 /\ IsBuffer(last.body)
             /\ last.ran.op = "set"
    /\ LastWriteDone
          => /\ RaceStack \in DOMAIN sent
             /\ GetResult(store, RaceKey) \in sent[RaceStack]

\* the same when the function kept by the breaker of setCache is one made
\* for this stack
C19_OneWriterEntryOwnFunction ==
    /\ (last.via = "miss" /\ last.event = "deliver" /\ last.saved = "pending")
          => /\ last.status = 200 /\ IsBuffer(last.body)
             /\ last.ran.op = "set"
    /\ (LastWriteDone /\ firstRequest["redis-set"].fn.key = RaceKey)
          => /\ RaceStack \in DOMAIN sent
             /\ GetResult(store, RaceKey) \in sent[RaceStack]

\* two requests with different archives both missed and both wrote
C19_WitnessTwoWriters ==
    /\ LastWriteDone
    /\ firstRequest["redis-set"].fn.key = RaceKey
    /\ Cardinality(sent[RaceStack]) = 2
    /\ circuitBreakers["redis-set"].fires = 2

\* both writers between two of their store commands
C19_WitnessInterleaved ==
    /\ tasks[1].pc = "type2" /\ tasks[2].pc = "val"
    /\ tasks[1].key = RaceKey /\ tasks[2].key = RaceKey

----------------------------------------------------------------------------
(* Claims on what a cache miss buffers *)

MissOpened == last.event = "fire" /\ last.via = "miss" /\ last.kind \in Versions
MissDone == last.event = "deliver" /\ last.via = "miss" /\ last.kind \in Versions

\* C20: a request that misses collects the compressed bytes only when the
\* cache is available as its archive is opened; a request that found it
\* unavailable then issues no cache set, also when the cache is available
\* as the archive completes; and a set is issued only by a request that
\* collected bytes and finds the cache available at completion.
C20_BufferedAtOpenOnly ==
    /\ MissOpened
          => \E t \in Slots :
                /\ tasks[t].pc = "stream"
                /\ tasks[t].avail = isRedisAvailable
                /\ Len(cacheBuffers(tasks[t].avail, tasks[t].value)) > 0
                      <=> isRedisAvailable
    /\ MissDone
          => /\ ~last.avail => last.saved = "skipped" /\ last.ran = NoAction
             /\ last.saved # "skipped" => last.avail /\ isRedisAvailable

\* unavailable as the archive was opened, available as it completed
C20_WitnessAvailableLater ==
    /\ MissDone /\ ~last.avail /\ isRedisAvailable
    /\ last.saved = "skipped" /\ store = <<>>

\* available as the archive was opened, unavailable as it completed
C20_WitnessLost ==
    /\ MissDone /\ last.avail /\ ~isRedisAvailable /\ last.saved = "skipped"

C20_WitnessSet ==
    /\ MissDone /\ last.avail /\ isRedisAvailable /\ last.saved = "success"

----------------------------------------------------------------------------
(* Claims on requests that are answered without an archive *)

InvalidPair(frontend, backend) ==
    \/ frontend \notin Frontends
    \/ backend \notin Backends
    \/ backend \notin compatibility(frontend)

GenerateRequest ==
    /\ last.kind \in Versions /\ last.event \in {"fire", "deliver"}
    /\ last.key = StackNameOf(last.frontend, last.backend)

\* a valid pair, no template on disk for it and no entry for it in the cache
NothingToServe ==
    /\ GenerateRequest /\ ~InvalidPair(last.frontend, last.backend)
    /\ last.key \notin Boilerplates
    /\ ~Lookup(store, "stack:" \o last.key).present

\* the function kept by the breaker of getCache reads the entry of the request
OwnRead == firstRequest["redis-get"].fn.key = "stack:" \o last.key

\* C21: a request whose pair fails validation is answered 400 and nothing is
\* read from the cache, walked, compressed or written to the cache for it; a
\* request for a valid pair with no template and no cached archive is
\* answered with the missing-stack error and nothing is walked, compressed
\* or written to the cache for it.
C21_NoArchiveWork ==
    /\ []( NothingToServe => last.via = "missing" )
    /\ []( ( GenerateRequest /\ InvalidPair(last.frontend, last.backend) )
           => /\ last.event = "deliver" /\ last.via = "invalid"
              /\ last.status = 400 /\ last.body = Null
              /\ last.ran = NoAction /\ ~last.walked /\ last.entries = {}
              /\ last.saved = "none" )
    /\ []( ( GenerateRequest /\ last.via = "missing" )
           => /\ last.event = "deliver"
              /\ last.status \in {404, 501} /\ last.body = Null
              /\ ~Truthy(last.result)
              /\ last.ran.op # "set" /\ ~last.walked /\ last.entries = {}
              /\ last.saved = "none" )
    /\ [][ ( last'.kind \in Versions /\ last'.via \in {"invalid", "missing"}
             /\ last'.key = StackNameOf(last'.frontend, last'.backend) )
           => /\ tasks' = tasks /\ store' = store /\ sent' = sent
              /\ circuitBreakers'["redis-set"] = circuitBreakers["redis-set"]
              /\ last'.via = "invalid"
                   => circuitBreakers' = circuitBreakers ]_vars

\* the same, the missing-stack answer asked only of requests whose cache
\* read is made by a function created for their own key
C21_NoArchiveWorkOwnRead ==
    /\ []( ( NothingToServe /\ (last.ran.op = "get" => OwnRead) )
           => last.via = "missing" )
    /\ []( ( GenerateRequest /\ InvalidPair(last.frontend, last.backend) )
           => /\ last.event = "deliver" /\ last.via = "invalid"
              /\ last.status = 400 /\ last.body = Null
              /\ last.ran = NoAction /\ ~last.walked /\ last.entries = {}
              /\ last.saved = "none" )
    /\ []( ( GenerateRequest /\ last.via = "missing" )
           => /\ last.event = "deliver"
              /\ last.status \in {404, 501} /\ last.body = Null
              /\ last.ran.op # "set" /\ ~last.walked /\ last.entries = {}
              /\ last.saved = "none" )
    /\ [][ ( last'.kind \in Versions /\ last'.via \in {"invalid", "missing"}
             /\ last'.key = StackNameOf(last'.frontend, last'.backend) )
           => /\ tasks' = tasks /\ store' = store /\ sent' = sent
              /\ circuitBreakers'["redis-set"] = circuitBreakers["redis-set"]
              /\ last'.via = "invalid"
                   => circuitBreakers' = circuitBreakers ]_vars

\* an invalid pair answered while the cache holds entries
C21_WitnessInvalid ==
    /\ GenerateRequest /\ last.via = "invalid" /\ last.status = 400
    /\ last.frontend = "php" /\ isRedisAvailable
    /\ circuitBreakers["redis-get"].id # 0

\* a valid pair without a template, the cache read and empty
C21_WitnessMissing ==
    /\ GenerateRequest /\ last.via = "missing" /\ last.key = "vue-express"
    /\ last.ran.op = "get" /\ last.status = 501

----------------------------------------------------------------------------
(* Claims on the entries of the archive *)

\* the files of the template below one of the two roots, no component of
\* their path below the root being skipped
Archivable(tree) ==
    { q \in tree \ Dangling :
        /\ Len(q) > 1 /\ q[1] \in {FrontendDir, BackendDir}
        /\ \A i \in 2..Len(q) : ~Skipped(q[i]) }

\* C22: the archive built by generateStack holds one entry frontend/p
\* (backend/p) for every regular file at p below the frontend (backend) root
\* of the template with no skipped component in p, whatever its depth, each
\* appended once, and no other entry.
C22_EntriesAreTheFiles ==
    ( last.kind = "generateA" /\ last.event = "fire" /\ last.via = "miss"
      /\ last.walked )
    => /\ last.entries = Archivable(last.tree)
       /\ last.appended = Cardinality(last.entries)

\* files at depth one and three below the frontend root, one outside the roots
C22_WitnessDeep ==
    /\ last.kind = "generateA" /\ last.event = "fire" /\ last.via = "miss"
    /\ last.tree = {File(1), File(7), File(8)}
    /\ last.entries = {File(1), File(8)} /\ last.appended = 2

C22_WitnessSkipped ==
    /\ last.kind = "generateA" /\ last.event = "fire" /\ last.via = "miss"
    /\ last.tree = {File(3), File(4), File(5), File(8)}
    /\ last.entries = {File(4), File(8)}

----------------------------------------------------------------------------
(* Claims on the deadline of a call *)

C23_WitnessFallback ==
    /\ Delivered /\ last.via = "timeout" /\ last.outcome = "resolved"
    /\ last.result = FallbackOf(1)
    /\ \E t \in Slots : tasks[t].delivered /\ tasks[t].pc = "running"

----------------------------------------------------------------------------
(* Claims on the function a breaker runs *)

LetThrough == last.event = "fire" /\ last.kind = "exec" /\ last.invoked

\* C24: every call of executeWithCircuitBreaker that the breaker lets through
\* runs the function passed in that call, also when the breaker of that name
\* was created by an earlier call with another function.
C24_RunsPassedFunction ==
    LetThrough => last.ran = FnAction(last.fn)

\* the call that creates the breaker runs its own function, and every call
\* runs the function of the call that created the breaker
C24_RunsFirstFunction ==
    LetThrough => last.ran = firstRequest[last.name].fn

C24_WitnessReuse ==
    /\ LetThrough /\ last.ran = FnAction(last.fn)
    /\ circuitBreakers[last.name].fires > 1

----------------------------------------------------------------------------
(* Claims on the keys of the cache *)

\* the step is one of the store commands of the operation in slot t
CommandOf(t) == tasks[t].pc \in StorePcs /\ tasks'[t] # tasks[t]

\* C25: with the store healthy, getCache(k) that completes from the store
\* returns what the store holds under k (null when it holds nothing) and
\* never what was written under another key, and the commands of
\* setCache(k, v) change no entry but those of k and k:type.
C25_OwnKeyOnly ==
    /\ []( ( Delivered /\ last.kind = "getCache" /\ last.via = "success" )
           => last.result = GetResult(store, last.key) )
    /\ [][ \A t \in Slots :
             ( CommandOf(t) /\ tasks[t].kind = "setCache" )
             => \A x \in StoreKeys :
                   store'[x] # store[x]
                     => x \in {tasks[t].key, TypeKey(tasks[t].key)} ]_vars

\* the same for the operations run by a function created for their own key
C25_OwnKeyOnlyOwnFunction ==
    /\ []( ( Delivered /\ last.kind = "getCache" /\ last.via = "success"
             /\ last.ran.key = last.key )
           => last.result = GetResult(store, last.key) )
    /\ [][ \A t \in Slots :
             ( CommandOf(t) /\ tasks[t].kind = "setCache"
               /\ tasks[t].action.key = tasks[t].key )
             => \A x \in StoreKeys :
                   store'[x] # store[x]
                     => x \in {tasks[t].key, TypeKey(tasks[t].key)} ]_vars

\* a value read back under its own key while the other key holds another
C25_WitnessOwnKey ==
    /\ Delivered /\ last.kind = "getCache" /\ last.via = "success"
    /\ last.key = "k1" /\ last.ran.key = "k1"
    /\ last.result = BufferOf(<<77>>)

----------------------------------------------------------------------------
(* Claims on the type marker *)

\* C26: whenever no cache operation is in flight, the marker k:type is in
\* the store exactly when the value stored under k is a binary payload; so
\* getCache(k) after a text value was written over a binary one, or after
\* the binary one was deleted, returns the text and no binary decoding of it.
C26_MarkerIffBinary ==
    /\ Quiet
         => \A k \in CacheKeys :
               store[TypeKey(k)].present
                 <=> (store[k].present /\ IsBuffer(written[k]))
    /\ ( Delivered /\ last.kind = "getCache" /\ last.via = "success"
         /\ written[last.key].kind = "string" )
         => last.result = written[last.key]

\* a value of either kind completely written leaves the marker as it wrote it
C26_MarkerWhenBinary ==
    ( Delivered /\ last.kind = "setCache" /\ last.via = "success"
      /\ IsBuffer(last.ran.value) )
    => /\ store[TypeKey(last.ran.key)].present
       /\ store[TypeKey(last.ran.key)].str = BufferMarker
       /\ store[last.ran.key].str = ToBase64(last.ran.value.data)

C26_WitnessBinary ==
    /\ Delivered /\ last.kind = "setCache" /\ last.via = "success"
    /\ IsBuffer(last.ran.value) /\ last.name = ""
    /\ store[TypeKey("k1")].ex = 60

----------------------------------------------------------------------------
(* Claims on values that are not binary *)

ReadBack ==
    /\ Delivered /\ last.kind = "getCache" /\ last.via = "success"
    /\ written[last.key].kind \in {"string", "object"}

\* C27: getCache(k) that completes from the store after setCache(k, v) of a
\* string or an object v completed, the empty string and strings that are
\* JSON text included, returns a value equal to v and of the kind of v.
C27_TextRoundTrip ==
    ReadBack => last.result = written[last.key]

\* the same for objects and for the strings that are neither empty nor JSON
\* text, written and read without a breaker
C27_PlainTextRoundTrip ==
    ( ReadBack /\ last.name = "" /\ circuitBreakers["redis-set"].id = 0
      /\ written[last.key] \in {StringOf(<<116, 101>>), ObjectOf(<<116>>)} )
    => last.result = written[last.key]

C27_WitnessObject ==
    /\ ReadBack /\ last.name = "" /\ circuitBreakers["redis-set"].id = 0
    /\ written[last.key] = ObjectOf(<<116>>)
    /\ last.result = ObjectOf(<<116>>)

\* ------------------------------------------------------------------------
\* C28  a generateStack request writes exactly one response
\* ------------------------------------------------------------------------

\* the step answers a generateStack request whose archive, if one was
\* opened, has been written completely
Answered ==
    /\ last.kind \in {"generateA", "generateB"}
    /\ last.event = "deliver"
    /\ last.via # "streamError"

\* C28: every generateStack request that is answered has had exactly one
\* body sent to the client: the error body, the cached bytes of a hit, or
\* the streamed archive of a miss with no second send of the payload
\* after it.
C28_OneResponse == Answered => last.sends = 1

\* what the code guarantees: one body for every answer of the first
\* controller, and for the second controller's unless it is a miss whose
\* bytes went to the cache, which is sent again by handleStackCache
C28_OneResponseUnlessSavedB ==
    Answered =>
        last.sends = IF /\ last.kind = "generateB"
                         /\ last.via = "miss"
                         /\ last.saved \notin {"none", "skipped"}
                      THEN 2 ELSE 1

\* a miss of the second controller whose archive was streamed and then
\* handed to handleStackCache
C28_WitnessSecondSend ==
    /\ Answered
    /\ last.kind = "generateB"
    /\ last.via = "miss"
    /\ last.sends = 2

\* a miss of the first controller: streamed once
C28_WitnessStreamedOnce ==
    /\ Answered
    /\ last.kind = "generateA"
    /\ last.via = "miss"
    /\ last.saved \notin {"none", "skipped"}
    /\ last.sends = 1

----------------------------------------------------------------------------
(* controllers/apiKeyController and utils/apiKey: API key documents *)

keysPerUser == 5     \* RATE_LIMIT.keysPerUser
MaxNameLength == 50  \* longest name createApiKey accepts
MaxKeyDocs == 7      \* documents the collection holds at most

\* user ids a request can carry: none, two ObjectIds, and a string that is
\* not an ObjectId
ObjectIds == {"u1", "u2"}
UserIds == {""} \cup ObjectIds \cup {"zz"}

\* a name is represented by its length
NameLengths == {0, 2, MaxNameLength + 1}

\* new ApiKey({key, name, owner, createdAt, lastUsed: null, enabled: true});
\* lastUsed: 0 is null, 1 a date
NewApiKey(userId) == [owner |-> userId, lastUsed |-> 0, enabled |-> TRUE]

\* ApiKey.countDocuments({ owner: userId })
countDocuments(docs, userId) ==
    Cardinality({i \in DOMAIN docs : docs[i].owner = userId})

\* the checks createApiKey makes on the request body
createApiKeyCheck(name, userId) ==
    IF name = 0 \/ userId = "" THEN "Name and userId are required"
    ELSE IF name > MaxNameLength THEN "Invalid name length"
    ELSE IF userId \notin ObjectIds THEN "Invalid userId format"
    ELSE "none"

KeyObs(kind, userId) == [NoObs EXCEPT !.kind = kind, !.name = userId]

KeyFrame ==
    UNCHANGED <<circuitBreakers, constructed, firstRequest, store,
                redisClient, redisEnabled, conn, written, sent, queues>>

\* createApiKey up to the answer of countDocuments; ok: the database
\* answers
CreateCount(name, userId, ok) ==
    LET err == createApiKeyCheck(name, userId)
        keyCount == countDocuments(apiKeys.docs, userId)
        o == [KeyObs("createApiKey", userId) EXCEPT !.via = "count"]
    IN  /\ SomeFree
        /\ captured' = 0
        /\ UNCHANGED apiKeys
        /\ KeyFrame
        /\ IF err # "none"
           THEN /\ last' = [o EXCEPT !.event = "deliver", !.status = 400,
                                     !.error = err]
                /\ UNCHANGED tasks
           ELSE IF ~ok
           THEN /\ last' = [o EXCEPT !.event = "deliver", !.status = 500,
                                     !.error = "Failed to create API key"]
                /\ UNCHANGED tasks
           ELSE IF keyCount >= keysPerUser
           THEN /\ last' = [o EXCEPT !.event = "deliver", !.status = 429,
                                     !.error = "Rate limit exceeded",
                                     !.keyCount = keyCount]
                /\ UNCHANGED tasks
           ELSE /\ last' = [o EXCEPT !.event = "start",
                                     !.keyCount = keyCount]
                /\ tasks' = [tasks EXCEPT ![FirstFree] =
                      [IdleTask EXCEPT !.kind = "createApiKey",
                          !.pc = "counted", !.name = userId,
                          !.touched = keyCount]]

\* createApiKey from apiKey.save() to its answer
CreateSave(t, ok) ==
    LET task == tasks[t]
        o == [KeyObs("createApiKey", task.name) EXCEPT
                  !.event = "deliver", !.via = "save",
                  !.keyCount = task.touched]
    IN  /\ task.pc = "counted"
        /\ Len(apiKeys.docs) < MaxKeyDocs
        /\ tasks' = [tasks EXCEPT ![t] = IdleTask]
        /\ captured' = 0
        /\ KeyFrame
        /\ IF ok
           THEN /\ apiKeys' = [apiKeys EXCEPT
                                  !.docs = Append(@, NewApiKey(task.name))]
                /\ last' = [o EXCEPT !.status = 201,
                                     !.keyId = Len(apiKeys.docs) + 1]
           ELSE /\ UNCHANGED apiKeys
                /\ last' = [o EXCEPT !.status = 500,
                                     !.error = "Failed to create API key"]

InitKeys == InitBreaker

NextKeys ==
    \/ \E name \in NameLengths, userId \in UserIds, ok \in BOOLEAN :
          CreateCount(name, userId, ok)
    \/ \E t \in Slots, ok \in BOOLEAN : CreateSave(t, ok)

SpecKeys == InitKeys /\ [][NextKeys]_vars

\* ------------------------------------------------------------------------
\* C29  concurrent createApiKey requests keep a user within keysPerUser
\* ------------------------------------------------------------------------

\* C29: whatever the interleaving of createApiKey requests, no user owns
\* more than keysPerUser API key documents, and a request handled when the
\* user owns keysPerUser documents is answered 429 and creates nothing.
C29_AtMostKeysPerUser ==
    /\ \A u \in ObjectIds : countDocuments(apiKeys.docs, u) <= keysPerUser
    /\ ( /\ last.kind = "createApiKey"
         /\ last.via = "count"
         /\ last.event = "deliver"
         /\ last.keyCount >= keysPerUser )
       => last.status = 429

\* what the code guarantees: a request that counts keysPerUser documents or
\* more is refused, every document saved was counted below the limit, and
\* a user exceeds the limit by fewer documents than requests can be in
\* flight together
C29_RefusedWhenCountedAtLimit ==
    /\ \A u \in ObjectIds :
          countDocuments(apiKeys.docs, u) < keysPerUser + MaxTasks
    /\ \A t \in Slots :
          tasks[t].pc = "counted" => tasks[t].touched < keysPerUser
    /\ ( /\ last.kind = "createApiKey"
         /\ last.via = "save"
         /\ last.status = 201 )
       => last.keyCount < keysPerUser
    /\ ( /\ last.kind = "createApiKey"
         /\ last.via = "count"
         /\ last.event = "deliver"
         /\ last.error = "Rate limit exceeded" )
       => /\ last.status = 429
          /\ last.keyCount >= keysPerUser

\* two requests counted four documents each and both saved
C29_WitnessSixKeys ==
    /\ countDocuments(apiKeys.docs, "u1") = keysPerUser + 1
    /\ last.kind = "createApiKey"
    /\ last.status = 201
    /\ last.keyCount = keysPerUser - 1

\* a request refused at the limit
C29_WitnessRefused ==
    /\ last.kind = "createApiKey"
    /\ last.status = 429
    /\ countDocuments(apiKeys.docs, last.name) = keysPerUser

----------------------------------------------------------------------------
(* utils/apiKey validateApiKey and controllers/apiKeyController            *)
(* revokeApiKey                                                            *)

\* ApiKey.findOne({ key: apiKey, enabled: true }): the document, 0 for null
findOne(docs, apiKey) ==
    IF apiKey \in DOMAIN docs /\ docs[apiKey].enabled THEN apiKey ELSE 0

\* keyDoc.lastUsed = new Date(); await keyDoc.save(), keyDoc being the
\* document as findOne returned it.  Writing every field of keyDoc back:
saveWholeDocument(docs, id, keyDoc) ==
    [docs EXCEPT ![id] = [keyDoc EXCEPT !.lastUsed = 1]]

\* save() of a document that was read from the database updates the paths
\* modified since: lastUsed alone
save(docs, id, keyDoc) == [docs EXCEPT ![id].lastUsed = 1]

\* ApiKey.findByIdAndUpdate(keyId, { enabled: false }, { new: true }): the
\* documents afterwards
findByIdAndUpdate(docs, keyId) ==
    IF keyId \in DOMAIN docs THEN [docs EXCEPT ![keyId].enabled = FALSE]
    ELSE docs

\* the checks revokeApiKey makes on the route parameter; 0 stands for an
\* empty keyId, a negative number for a string that is not an ObjectId
revokeApiKeyCheck(keyId) ==
    IF keyId = 0 THEN "Valid keyId is required"
    ELSE IF keyId < 0 THEN "Invalid keyId format"
    ELSE "none"

\* validateApiKey up to the answer of findOne; apiKey = 0: no key presented
ValidateFind(apiKey, ok) ==
    LET id == findOne(apiKeys.docs, apiKey)
        o == [KeyObs("validateApiKey", "") EXCEPT !.via = "lookup",
                                                  !.keyId = apiKey]
    IN  /\ SomeFree
        /\ captured' = 0
        /\ UNCHANGED apiKeys
        /\ KeyFrame
        /\ IF apiKey = 0
           THEN /\ last' = [o EXCEPT !.event = "deliver", !.status = 401,
                                     !.error = "API key is required"]
                /\ UNCHANGED tasks
           ELSE IF ~ok
           THEN /\ last' = [o EXCEPT !.event = "deliver", !.status = 500,
                      !.error =
                        "Internal server error during API key validation"]
                /\ UNCHANGED tasks
           ELSE IF id = 0
           THEN /\ last' = [o EXCEPT !.event = "deliver", !.status = 401,
                                     !.error = "Invalid API key"]
                /\ UNCHANGED tasks
           ELSE /\ last' = [o EXCEPT !.event = "start"]
                /\ tasks' = [tasks EXCEPT ![FirstFree] =
                      [IdleTask EXCEPT !.kind = "validateApiKey",
                          !.pc = "found", !.touched = id,
                          !.value = apiKeys.docs[id]]]

\* validateApiKey from keyDoc.save() to its end
ValidateSave(t, ok) ==
    LET task == tasks[t]
        o == [KeyObs("validateApiKey", "") EXCEPT
                  !.event = "deliver", !.via = "save",
                  !.keyId = task.touched]
    IN  /\ task.pc = "found"
        /\ tasks' = [tasks EXCEPT ![t] = IdleTask]
        /\ captured' = 0
        /\ KeyFrame
        /\ IF ok
           THEN /\ apiKeys' = [apiKeys EXCEPT
                      !.docs = save(@, task.touched, task.value)]
                /\ last' = [o EXCEPT !.apiKey = task.touched]
           ELSE /\ UNCHANGED apiKeys
                /\ last' = [o EXCEPT !.status = 500,
                      !.error =
                        "Internal server error during API key validation"]

\* revokeApiKey
RevokeApiKey(keyId, ok) ==
    LET err == revokeApiKeyCheck(keyId)
        o == [KeyObs("revokeApiKey", "") EXCEPT !.event = "deliver",
                                                !.keyId = keyId]
    IN  /\ captured' = 0
        /\ UNCHANGED tasks
        /\ KeyFrame
        /\ IF err # "none"
           THEN /\ last' = [o EXCEPT !.status = 400, !.error = err]
                /\ UNCHANGED apiKeys
           ELSE IF ~ok
           THEN /\ last' = [o EXCEPT !.status = 500,
                                     !.error = "Failed to revoke API key"]
                /\ UNCHANGED apiKeys
           ELSE IF keyId \notin DOMAIN apiKeys.docs
           THEN /\ last' = [o EXCEPT !.status = 404,
                                     !.error = "API key not found"]
                /\ UNCHANGED apiKeys
           ELSE /\ last' = [o EXCEPT !.status = 200]
                /\ apiKeys' =
                      [docs |-> findByIdAndUpdate(apiKeys.docs, keyId),
                       revoked |-> apiKeys.revoked \cup {keyId}]

\* two keys of one user, never used
IssuedKeys == <<NewApiKey("u1"), NewApiKey("u1")>>

InitRevoke ==
    /\ InitCore
    /\ NoRedis
    /\ apiKeys = [docs |-> IssuedKeys, revoked |-> {}]

NextRevoke ==
    \/ \E apiKey \in 0..(Len(IssuedKeys) + 1), ok \in BOOLEAN :
          ValidateFind(apiKey, ok)
    \/ \E t \in Slots, ok \in BOOLEAN : ValidateSave(t, ok)
    \/ \E keyId \in (-1)..(Len(IssuedKeys) + 1), ok \in BOOLEAN :
          RevokeApiKey(keyId, ok)

SpecRevoke == InitRevoke /\ [][NextRevoke]_vars

\* ------------------------------------------------------------------------
\* C30  a revoked key stays revoked
\* ------------------------------------------------------------------------

\* the step is the lookup of a validateApiKey that presents a key revoked
\* before the validation started
LookupOfRevoked ==
    /\ last.kind = "validateApiKey"
    /\ last.via = "lookup"
    /\ last.keyId \in apiKeys.revoked

C30_WitnessRefused ==
    /\ LookupOfRevoked
    /\ last.status = 401
    /\ apiKeys.docs[last.keyId].lastUsed = 1

====
